---- MODULE Spec2Model ----
(***************************************************************************)
(* Mimamori: the trigger classifier (ContextTracker.checkTrigger), the     *)
(* cross-channel context query (MessageRepository / buildContext) and the  *)
(* long-term signal aggregator (SignalAggregator / SignalRepository).      *)
(*                                                                         *)
(* Time is counted in minutes (the code uses milliseconds; every window in *)
(* the code is a whole number of minutes).  A calendar day, the string     *)
(* new Date().toISOString().split('T')[0], is the number of the UTC day:   *)
(* ISO dates compare as strings in the order of the days they name.        *)
(***************************************************************************)
EXTENDS Integers, Sequences, FiniteSets, TLC

VARIABLES
    now,              \* Date.now(), in minutes
    user_signals,     \* rows of table user_signals
    daily_snapshots,  \* rows of table daily_snapshots
    aggCall,          \* the last recordAnalysis call: arguments and AggregationResult
    hist,             \* per directional pair: what has been recorded so far (history)
    trendIn,          \* calculateTrend: the snapshots passed in
    trendOut,         \* calculateTrend: what it returned, once called
    trigIn,           \* checkTrigger: the arguments
    trigOut,          \* checkTrigger: the AnalysisTrigger returned, once called
    messages,         \* rows of table messages
    chain,            \* the buildContext call of the last step, if it was one:
                      \* arguments, time and result
    interactions,     \* rows of table interactions
    handlers,         \* per message id: where its handleMessage call stands
    alerts,           \* rows of table alerts
    cleanup,          \* config.messageRetentionHours and the last run of
                      \* cleanupOldMessages: its cutoff and what it returned
    db                \* whether the bot holds its open database, and the
                      \* statements that were run on the closed connection

vars == <<now, user_signals, daily_snapshots, aggCall, hist, trendIn, trendOut,
          trigIn, trigOut, messages, chain, interactions, handlers, alerts,
          cleanup, db>>

(***************************************************************************)
(* Bounds of the model                                                     *)
(***************************************************************************)
MaxCalls == 21        \* recordAnalysis calls for one pair on an empty database
MaxRun == 7           \* longest run of equal counts in a calculateTrend input
MaxCount == 2         \* largest concerning_count in a calculateTrend input
MaxMatched == 2       \* categories one content matches besides its tone
MaxMsgs == 2          \* message ids in the MessageStore
MaxOverCap == 2       \* messages stored beyond the cap of the context query
MaxBotMsgs == 2       \* message events the bot receives
MaxHistCalls == 3     \* recordAnalysis calls on top of a persisted history
MaxHistDays == 2      \* days that pass on top of a persisted history
HistDays == 13        \* days of a persisted history
MaxOtherCalls == 2    \* recordAnalysis calls for the opposite pair

HoursPerDay == 24
MinutesPerHour == 60
MinutesPerDay == HoursPerDay * MinutesPerHour

\* A user id is the sequence of its characters (Discord ids are digit strings).
U1 == <<"1">>
U2 == <<"2">>
U12 == <<"1", "2">>

Guilds == {"g1", "g2"}
Users == {U1, U2}
Pairs == Guilds \X Users \X Users

Min(x, y) == IF x < y THEN x ELSE y

(***************************************************************************)
(* JS helpers                                                              *)
(***************************************************************************)
\* Array.prototype.slice(from, to) on a 0-based array
slice(arr, from, to) == SubSeq(arr, from + 1, Min(to, Len(arr)))

\* arr.reduce((sum, s) => sum + s.concerning_count, 0): the sum over the first
\* n elements, then over all of them
RECURSIVE reduceUpTo(_, _)
reduceUpTo(arr, n) ==
    IF n = 0 THEN 0 ELSE reduceUpTo(arr, n - 1) + arr[n].concerning_count

reduceConcerning(arr) == reduceUpTo(arr, Len(arr))

RECURSIVE Gcd(_, _)
Gcd(x, y) == IF y = 0 THEN x ELSE Gcd(y, x % y)

\* The quotient n / d of two naturals as an exact fraction in lowest terms.
Frac(n, d) == LET g == Gcd(n, d) IN [num |-> n \div g, den |-> d \div g]

(***************************************************************************)
(* JSON text of a breakdown object: the keys in the object's insertion     *)
(* order, each with its count.  JSON.parse gives back the object.          *)
(***************************************************************************)
IssueKeys == <<"discrimination", "harassment", "bullying", "implicit_bias",
               "labeling", "targeting", "inappropriate">>
SeverityKeys == <<"low", "medium", "high">>

Range(s) == {s[i] : i \in DOMAIN s}

JSONstringify(obj, keys) == [i \in DOMAIN keys |-> <<keys[i], obj[keys[i]]>>]

\* Object.keys of the parsed object: the keys in the order of the text
keysOf(text) == [i \in DOMAIN text |-> text[i][1]]

\* What a count is after ++ made it NaN: JSON.stringify writes null for it,
\* JSON.parse reads null back, and null++ gives 1.
NaN == -1

\* the properties every object inherits from Object.prototype
ObjectPrototype == {"constructor", "hasOwnProperty", "isPrototypeOf",
                    "propertyIsEnumerable", "toLocaleString", "toString",
                    "valueOf"}

\* key in obj: own and inherited properties
In(key, obj) == key \in DOMAIN obj \/ key \in ObjectPrototype

\* A bug to compare with: the count is set to one, not incremented.
increment_Reset(obj, key) ==
    IF key \in DOMAIN obj
    THEN [obj EXCEPT ![key] = 1]
    ELSE [k \in DOMAIN obj \cup {key} |-> IF k = key THEN NaN ELSE obj[k]]

\* obj[key]++ : an own count is incremented; an inherited function, or a
\* missing property, becomes the own property NaN
increment(obj, key) ==
    IF key \in DOMAIN obj
    THEN [obj EXCEPT ![key] = IF @ = NaN THEN 1 ELSE @ + 1]
    ELSE [k \in DOMAIN obj \cup {key} |-> IF k = key THEN NaN ELSE obj[k]]

\* the keys of obj after obj[key]++, in insertion order
keysAfter(keys, key) == IF key \in Range(keys) THEN keys ELSE Append(keys, key)

JSONparse(text) ==
    [k \in {text[i][1] : i \in DOMAIN text} |->
        LET last == CHOOSE i \in DOMAIN text :
                        /\ text[i][1] = k
                        /\ \A j \in DOMAIN text : text[j][1] = k => j <= i
        IN text[last][2]]

(***************************************************************************)
(* SignalRepository (database/signals.ts)                                  *)
(***************************************************************************)
NoSignal == [guild_id |-> "-"]    \* what getSignalStmt.get gives for no row: undefined

\* A bug to compare with: the key is the unordered pair of users.
SameSignalKey_Unordered(r, g, s, t) ==
    r.guild_id = g /\ {r.source_user_id, r.target_user_id} = {s, t}

\* WHERE guild_id = ? AND source_user_id = ? AND target_user_id = ?
SameSignalKey(r, g, s, t) ==
    r.guild_id = g /\ r.source_user_id = s /\ r.target_user_id = t

getSignal(table, guildId, sourceUserId, targetUserId) ==
    IF \E r \in table : SameSignalKey(r, guildId, sourceUserId, targetUserId)
    THEN CHOOSE r \in table : SameSignalKey(r, guildId, sourceUserId, targetUserId)
    ELSE NoSignal

\* A bug to compare with: ON CONFLICT leaves the trend column as it was.
upsertSignal_KeepTrend(table, signal) ==
    LET old == getSignal(table, signal.guild_id, signal.source_user_id,
                         signal.target_user_id)
    IN IF old = NoSignal
       THEN table \cup {signal}
       ELSE (table \ {old}) \cup
            {[signal EXCEPT !.first_seen = old.first_seen, !.trend = old.trend]}

\* A bug to compare with: INSERT OR IGNORE, the stored row stays.
upsertSignal_Ignore(table, signal) ==
    IF getSignal(table, signal.guild_id, signal.source_user_id,
                 signal.target_user_id) = NoSignal
    THEN table \cup {signal}
    ELSE table

\* INSERT ... ON CONFLICT(guild_id, source_user_id, target_user_id) DO UPDATE SET
\* every column but first_seen
upsertSignal(table, signal) ==
    LET old == getSignal(table, signal.guild_id, signal.source_user_id,
                         signal.target_user_id)
    IN IF old = NoSignal
       THEN table \cup {signal}
       ELSE (table \ {old}) \cup {[signal EXCEPT !.first_seen = old.first_seen]}

SameSnapshotKey(r, x) ==
    /\ r.guild_id = x.guild_id
    /\ r.source_user_id = x.source_user_id
    /\ r.target_user_id = x.target_user_id
    /\ r.date = x.date

\* A bug to compare with: ON CONFLICT DO UPDATE, the counts of the day's rows
\* add up.
recordSnapshot_Accumulate(table, snapshot) ==
    IF \E r \in table : SameSnapshotKey(r, snapshot)
    THEN LET old == CHOOSE r \in table : SameSnapshotKey(r, snapshot)
         IN (table \ {old}) \cup
            {[snapshot EXCEPT
                !.interaction_count = old.interaction_count + snapshot.interaction_count,
                !.concerning_count = old.concerning_count + snapshot.concerning_count]}
    ELSE table \cup {snapshot}

\* A bug to compare with: INSERT OR IGNORE, the day's first row stays.
recordSnapshot_KeepFirst(table, snapshot) ==
    IF \E r \in table : SameSnapshotKey(r, snapshot) THEN table
    ELSE table \cup {snapshot}

\* INSERT OR REPLACE INTO daily_snapshots, UNIQUE(guild, source, target, date)
recordSnapshot(table, snapshot) ==
    {r \in table : ~SameSnapshotKey(r, snapshot)} \cup {snapshot}

\* A bug to compare with: ORDER BY date ASC, the oldest rows come first.
OrderByDateDesc_OldestFirst(rows) ==
    [i \in 1..Cardinality(rows) |->
        CHOOSE r \in rows : Cardinality({q \in rows : q.date < r.date}) = i - 1]

\* rows sorted by date, newest first (the dates of a pair's rows are distinct:
\* UNIQUE(guild_id, source_user_id, target_user_id, date))
OrderByDateDesc(rows) ==
    [i \in 1..Cardinality(rows) |->
        CHOOSE r \in rows : Cardinality({q \in rows : q.date > r.date}) = i - 1]

\* SELECT ... WHERE guild, source, target ORDER BY date DESC LIMIT days
getRecentSnapshots(table, guildId, sourceUserId, targetUserId, days) ==
    LET rows == {r \in table : /\ r.guild_id = guildId
                               /\ r.source_user_id = sourceUserId
                               /\ r.target_user_id = targetUserId}
        sorted == OrderByDateDesc(rows)
    IN SubSeq(sorted, 1, Min(days, Len(sorted)))

\* A bug to compare with: only the first length check is made, and the previous
\* days are averaged over however many there are.
calculateTrend_NoHistoryCheck(snapshots) ==
    IF Len(snapshots) < 7 THEN 0
    ELSE LET recent == slice(snapshots, 0, 7)
             previous == slice(snapshots, 7, 14)
             r == reduceConcerning(recent)
             p == reduceConcerning(previous)
         IN IF Len(previous) = 0 THEN 0
            ELSE IF 2 * (r * Len(previous) - p * Len(recent))
                      > Len(recent) * Len(previous) THEN 1
            ELSE IF 2 * (r * Len(previous) - p * Len(recent))
                      < 0 - Len(recent) * Len(previous) THEN -1
            ELSE 0

\* A bug to compare with: any rise or fall of the average counts.
calculateTrend_NoMargin(snapshots) ==
    IF Len(snapshots) < 7 THEN 0
    ELSE LET recent == slice(snapshots, 0, 7)
             previous == slice(snapshots, 7, 14)
             r == reduceConcerning(recent)
             p == reduceConcerning(previous)
         IN IF Len(previous) < 7 THEN 0
            ELSE IF r * Len(previous) - p * Len(recent) > 0 THEN 1
            ELSE IF r * Len(previous) - p * Len(recent) < 0 THEN -1
            ELSE 0

\* change = recentAvg - previousAvg, with recentAvg = r / Len(recent) and
\* previousAvg = p / Len(previous): change > 0.5 is compared exactly, as
\* 2 * (r * Len(previous) - p * Len(recent)) > Len(recent) * Len(previous).
\* (The averages are sevenths of small integers; their difference is never
\* within rounding distance of 0.5.)
calculateTrend(snapshots) ==
    IF Len(snapshots) < 7 THEN 0
    ELSE LET recent == slice(snapshots, 0, 7)
             previous == slice(snapshots, 7, 14)
             r == reduceConcerning(recent)
             p == reduceConcerning(previous)
         IN IF Len(previous) < 7 THEN 0
            ELSE IF 2 * (r * Len(previous) - p * Len(recent))
                      > Len(recent) * Len(previous) THEN 1
            ELSE IF 2 * (r * Len(previous) - p * Len(recent))
                      < 0 - Len(recent) * Len(previous) THEN -1
            ELSE 0

(***************************************************************************)
(* SignalAggregator (context/aggregator.ts)                                *)
(***************************************************************************)
thresholds == <<3, 5, 10, 20>>

\* A bug to compare with: every count at or above a threshold alerts.
checkConcernThreshold_AtOrAbove(previous, current) ==
    \E i \in DOMAIN thresholds : current.concerning_count >= thresholds[i]

\* A bug to compare with: the previous count is compared with <=.
checkConcernThreshold_Inclusive(previous, current) ==
    \E i \in DOMAIN thresholds :
        LET previousCount == IF previous = NoSignal THEN 0
                             ELSE previous.concerning_count
        IN previousCount <= thresholds[i]
           /\ current.concerning_count >= thresholds[i]

\* for (const threshold of thresholds) if (previousCount < threshold &&
\* current.concerning_count >= threshold) return true; return false
checkConcernThreshold(previous, current) ==
    \E i \in DOMAIN thresholds :
        LET previousCount == IF previous = NoSignal THEN 0
                             ELSE previous.concerning_count
        IN previousCount < thresholds[i]
           /\ current.concerning_count >= thresholds[i]

severityToNumber(severity) ==
    CASE severity = "low" -> 1
      [] severity = "medium" -> 2
      [] severity = "high" -> 3
      [] OTHER -> 0

today(clock) == clock \div MinutesPerDay

\* A bug to compare with: the interaction is counted only when it is concerning.
countInteraction_OnlyConcerning(totalInteractions, result) ==
    IF result.isConcerning THEN totalInteractions + 1 ELSE totalInteractions

\* totalInteractions++
countInteraction(totalInteractions, result) == totalInteractions + 1

\* A bug to compare with: the sum of the confidences is not divided.
meanConfidence_Sum(totalConfidence, concerningCount) == Frac(totalConfidence, 1)

\* concerningCount > 0 ? totalConfidence / concerningCount : 0
meanConfidence(totalConfidence, concerningCount) ==
    IF concerningCount > 0 THEN Frac(totalConfidence, concerningCount)
    ELSE Frac(0, 1)

\* recordAnalysis(guildId, sourceUserId, targetUserId, result) at time clock on
\* the two tables: the tables it leaves and the AggregationResult it returns.
recordAnalysis(signals, snapshots, clock, guildId, sourceUserId, targetUserId, result) ==
    LET existingSignal == getSignal(signals, guildId, sourceUserId, targetUserId)
        exists == existingSignal # NoSignal
        issue0 == IF exists THEN JSONparse(existingSignal.issue_breakdown)
                  ELSE [k \in Range(IssueKeys) |-> 0]
        severity0 == IF exists THEN JSONparse(existingSignal.severity_breakdown)
                     ELSE [k \in Range(SeverityKeys) |-> 0]
        total0 == IF exists THEN existingSignal.total_interactions ELSE 0
        count0 == IF exists THEN existingSignal.concerning_count ELSE 0
        \* avg_confidence * concerning_count (an exact product of a fraction
        \* with denominator dividing the count)
        confidence0 == IF exists
                       THEN (existingSignal.avg_confidence.num * count0)
                                \div existingSignal.avg_confidence.den
                       ELSE 0
        firstSeen == IF exists THEN existingSignal.first_seen ELSE clock
        previousTrend == IF exists THEN existingSignal.trend ELSE 0
        totalInteractions == countInteraction(total0, result)
        concerningCount == IF result.isConcerning THEN count0 + 1 ELSE count0
        totalConfidence == IF result.isConcerning
                           THEN confidence0 + result.confidence ELSE confidence0
        issueKeys0 == IF exists THEN keysOf(existingSignal.issue_breakdown)
                      ELSE IssueKeys
        severityKeys0 == IF exists THEN keysOf(existingSignal.severity_breakdown)
                         ELSE SeverityKeys
        countsIssue == /\ result.isConcerning
                       /\ result.issueType # "none"
                       /\ In(result.issueType, issue0)
        issueBreakdown == IF countsIssue THEN increment(issue0, result.issueType)
                          ELSE issue0
        issueKeys == IF countsIssue THEN keysAfter(issueKeys0, result.issueType)
                     ELSE issueKeys0
        severityBreakdown ==
            IF result.isConcerning THEN increment(severity0, result.severity)
            ELSE severity0
        severityKeys == IF result.isConcerning
                        THEN keysAfter(severityKeys0, result.severity)
                        ELSE severityKeys0
        avgConfidence == meanConfidence(totalConfidence, concerningCount)
        snapshots1 == recordSnapshot(snapshots,
            [guild_id |-> guildId,
             source_user_id |-> sourceUserId,
             target_user_id |-> targetUserId,
             date |-> today(clock),
             interaction_count |-> 1,
             concerning_count |-> IF result.isConcerning THEN 1 ELSE 0,
             avg_severity |-> IF result.isConcerning
                              THEN severityToNumber(result.severity) ELSE 0,
             primary_issue_type |-> IF result.isConcerning
                                    THEN result.issueType ELSE "null"])
        recent == getRecentSnapshots(snapshots1, guildId, sourceUserId,
                                     targetUserId, 30)
        newTrend == calculateTrend(recent)
        updatedSignal ==
            [guild_id |-> guildId,
             source_user_id |-> sourceUserId,
             target_user_id |-> targetUserId,
             total_interactions |-> totalInteractions,
             concerning_count |-> concerningCount,
             issue_breakdown |-> JSONstringify(issueBreakdown, issueKeys),
             severity_breakdown |-> JSONstringify(severityBreakdown, severityKeys),
             avg_confidence |-> avgConfidence,
             trend |-> newTrend,
             first_seen |-> firstSeen,
             last_seen |-> clock,
             last_aggregated |-> clock]
        signals1 == upsertSignal(signals, updatedSignal)
        isNewConcern == checkConcernThreshold(existingSignal, updatedSignal)
        trendChanged == previousTrend # newTrend /\ newTrend = 1
    IN [signals |-> signals1,
        snapshots |-> snapshots1,
        ret |-> [signalUpdated |-> TRUE,
                 signal |-> getSignal(signals1, guildId, sourceUserId, targetUserId),
                 isNewConcern |-> isNewConcern,
                 trendChanged |-> trendChanged]]


(***************************************************************************)
(* ContextTracker.checkTrigger (context/tracker.ts)                        *)
(*                                                                         *)
(* A content is what the matchers read of the text: whether it contains an *)
(* obvious negative keyword, which of the pattern lists have a regular     *)
(* expression matching it, how many '!' it has, its length, and whether    *)
(* it equals its own toUpperCase().                                        *)
(***************************************************************************)
\* null and undefined where a user id is expected
null == <<"null">>
undefined == <<"undefined">>

PatternLists == {"LABELING", "ESCALATION", "GENERALIZING", "JUDGMENTAL",
                 "INSULT", "COMPETENCE_DENIAL", "THREAT", "GENDER_BIAS",
                 "AGE_BIAS", "CONDESCENDING", "DISMISSIVE", "PUBLIC_HUMILIATION"}

\* PATTERNS.some((pattern) => pattern.test(content)); no pattern has the g flag
some(list, content) == list \in content.patterns

\* A bug to compare with: the first mention is preferred to the reply author.
resolveTarget_MentionFirst(mentions, replyToAuthorId) ==
    IF mentions # <<>> THEN mentions[1]
    ELSE IF replyToAuthorId # null THEN replyToAuthorId
    ELSE undefined

\* replyToAuthorId ?? mentions[0]
resolveTarget(mentions, replyToAuthorId) ==
    IF replyToAuthorId # null THEN replyToAuthorId
    ELSE IF mentions # <<>> THEN mentions[1]
    ELSE undefined

\* A bug to compare with: no check for self-mentions.
isSelfMention_Never(targetUserId, authorId) == FALSE

\* targetUserId && targetUserId === authorId
isSelfMention(targetUserId, authorId) ==
    targetUserId # undefined /\ targetUserId = authorId

\* A bug to compare with: a targeted category fires without a target.
firesTargeted_NoTarget(has, targetUserId) == has

\* has... && targetUserId
firesTargeted(has, targetUserId) == has /\ targetUserId # undefined

\* targetUserId ?? authorId
orAuthor(targetUserId, authorId) ==
    IF targetUserId # undefined THEN targetUserId ELSE authorId

hasAggressiveTone(content) ==
    content.bangs >= 3 \/ (content.length > 10 /\ content.upper)

Trigger(reason, target) ==
    [shouldAnalyze |-> TRUE, reason |-> reason, targetUserId |-> target]

\* A bug to compare with: direct insults are looked for before judgmental
\* questions.
checkTrigger_InsultBeforeJudgmental(content, authorId, mentions, replyToAuthorId) ==
    LET targetUserId == resolveTarget(mentions, replyToAuthorId)
        self == orAuthor(targetUserId, authorId)
    IN IF isSelfMention(targetUserId, authorId)
       THEN [shouldAnalyze |-> FALSE, reason |-> "Self-mention",
             targetUserId |-> undefined]
       ELSE IF firesTargeted(content.obvious, targetUserId)
       THEN Trigger("Obvious negative keyword detected", targetUserId)
       ELSE IF some("LABELING", content)
       THEN Trigger("Labeling pattern detected (turning behavior into personality trait)", self)
       ELSE IF some("ESCALATION", content)
       THEN Trigger("Escalation language detected", self)
       ELSE IF some("GENERALIZING", content)
       THEN Trigger("Generalizing/implicit bias pattern detected", self)
       ELSE IF some("INSULT", content)
       THEN Trigger("Direct personal insult detected", self)
       ELSE IF firesTargeted(some("JUDGMENTAL", content), targetUserId)
       THEN Trigger("Judgmental/leading question detected", targetUserId)
       ELSE IF firesTargeted(some("COMPETENCE_DENIAL", content), targetUserId)
       THEN Trigger("Competence denial detected", targetUserId)
       ELSE IF some("THREAT", content)
       THEN Trigger("Threat/intimidation detected", self)
       ELSE IF some("GENDER_BIAS", content)
       THEN Trigger("Gender discrimination detected", self)
       ELSE IF some("AGE_BIAS", content)
       THEN Trigger("Age discrimination detected", self)
       ELSE IF firesTargeted(some("CONDESCENDING", content), targetUserId)
       THEN Trigger("Condescending/patronizing language detected", targetUserId)
       ELSE IF firesTargeted(some("DISMISSIVE", content), targetUserId)
       THEN Trigger("Dismissive/minimizing language detected", targetUserId)
       ELSE IF firesTargeted(some("PUBLIC_HUMILIATION", content), targetUserId)
       THEN Trigger("Public humiliation pattern detected", targetUserId)
       ELSE IF firesTargeted(hasAggressiveTone(content), targetUserId)
       THEN Trigger("Aggressive tone detected", targetUserId)
       ELSE [shouldAnalyze |-> FALSE, reason |-> "No concerning patterns detected",
             targetUserId |-> undefined]

checkTrigger(content, authorId, mentions, replyToAuthorId) ==
    LET targetUserId == resolveTarget(mentions, replyToAuthorId)
        self == orAuthor(targetUserId, authorId)
    IN IF isSelfMention(targetUserId, authorId)
       THEN [shouldAnalyze |-> FALSE, reason |-> "Self-mention",
             targetUserId |-> undefined]
       ELSE IF firesTargeted(content.obvious, targetUserId)
       THEN Trigger("Obvious negative keyword detected", targetUserId)
       ELSE IF some("LABELING", content)
       THEN Trigger("Labeling pattern detected (turning behavior into personality trait)", self)
       ELSE IF some("ESCALATION", content)
       THEN Trigger("Escalation language detected", self)
       ELSE IF some("GENERALIZING", content)
       THEN Trigger("Generalizing/implicit bias pattern detected", self)
       ELSE IF firesTargeted(some("JUDGMENTAL", content), targetUserId)
       THEN Trigger("Judgmental/leading question detected", targetUserId)
       ELSE IF some("INSULT", content)
       THEN Trigger("Direct personal insult detected", self)
       ELSE IF firesTargeted(some("COMPETENCE_DENIAL", content), targetUserId)
       THEN Trigger("Competence denial detected", targetUserId)
       ELSE IF some("THREAT", content)
       THEN Trigger("Threat/intimidation detected", self)
       ELSE IF some("GENDER_BIAS", content)
       THEN Trigger("Gender discrimination detected", self)
       ELSE IF some("AGE_BIAS", content)
       THEN Trigger("Age discrimination detected", self)
       ELSE IF firesTargeted(some("CONDESCENDING", content), targetUserId)
       THEN Trigger("Condescending/patronizing language detected", targetUserId)
       ELSE IF firesTargeted(some("DISMISSIVE", content), targetUserId)
       THEN Trigger("Dismissive/minimizing language detected", targetUserId)
       ELSE IF firesTargeted(some("PUBLIC_HUMILIATION", content), targetUserId)
       THEN Trigger("Public humiliation pattern detected", targetUserId)
       ELSE IF firesTargeted(hasAggressiveTone(content), targetUserId)
       THEN Trigger("Aggressive tone detected", targetUserId)
       ELSE [shouldAnalyze |-> FALSE, reason |-> "No concerning patterns detected",
             targetUserId |-> undefined]


(***************************************************************************)
(* MessageRepository (database repository) and buildContext                *)
(*                                                                         *)
(* The mentions column holds JSON.stringify(ids): the characters           *)
(* [ "id" , "id" ] of the array.                                           *)
(***************************************************************************)
\* A message id is a positive number (a snowflake); 0 stands for null.
nullId == 0

RECURSIVE joinQuoted(_, _)
joinQuoted(ids, n) ==
    IF n = 0 THEN <<>>
    ELSE (IF n = 1 THEN <<>> ELSE joinQuoted(ids, n - 1) \o <<",">>)
         \o <<"\"">> \o ids[n] \o <<"\"">>

\* JSON.stringify(mentions) for an array of id strings
JSONstringifyIds(ids) == <<"[">> \o joinQuoted(ids, Len(ids)) \o <<"]">>

\* JSON.parse(msg.mentions) as string[]: the strings between the quotes
JSONparseIds(text) ==
    LET quotes == {i \in DOMAIN text : text[i] = "\""}
        before(i) == Cardinality({j \in quotes : j < i})
        opening == {i \in quotes : before(i) % 2 = 0}
        closing(i) == CHOOSE j \in quotes : before(j) = before(i) + 1
        nth(k) == CHOOSE i \in opening : before(i) = 2 * (k - 1)
    IN [k \in 1..Cardinality(opening) |->
            SubSeq(text, nth(k) + 1, closing(nth(k)) - 1)]

\* text LIKE '%' || piece || '%' (the pieces hold digits and quotes only: no
\* wildcard, no letter whose case LIKE would ignore)
Contains(text, piece) ==
    \E i \in 1..(Len(text) - Len(piece) + 1) :
        SubSeq(text, i, i + Len(piece) - 1) = piece

\* A bug to compare with: the pattern is %id% instead of %"id"%.
LIKEmention_Unquoted(mentions, userId) == Contains(mentions, userId)

\* mentions LIKE `%"${userId}"%`
LIKEmention(mentions, userId) ==
    Contains(mentions, <<"\"">> \o userId \o <<"\"">>)

\* A bug to compare with: an unknown id yields some stored row.
getById_AnyRow(table, id) ==
    IF \E r \in table : r.id = id
    THEN CHOOSE r \in table : r.id = id
    ELSE IF table # {} THEN CHOOSE r \in table : TRUE
    ELSE [id |-> nullId]

\* SELECT * FROM messages WHERE id = ?
getById(table, id) ==
    IF \E r \in table : r.id = id
    THEN CHOOSE r \in table : r.id = id
    ELSE [id |-> nullId]

\* A bug to compare with: INSERT without OR REPLACE that keeps the old row.
insert_KeepOld(table, message) ==
    IF \E r \in table : r.id = message.id THEN table ELSE table \cup {message}

\* INSERT OR REPLACE INTO messages ... (id is the PRIMARY KEY)
insert(table, message) == {r \in table : r.id # message.id} \cup {message}

\* A bug to compare with: only the messages that mention one of the two users
\* are selected, not those they wrote.
contextRows_MentionsOnly(table, guildId, sinceTimestamp, userAId, userBId) ==
    {r \in table :
        /\ r.guild_id = guildId
        /\ r.timestamp >= sinceTimestamp
        /\ \/ LIKEmention(r.mentions, userAId)
           \/ LIKEmention(r.mentions, userBId)}

\* The rows getContextStmt selects, before ORDER BY and LIMIT.
contextRows(table, guildId, sinceTimestamp, userAId, userBId) ==
    {r \in table :
        /\ r.guild_id = guildId
        /\ r.timestamp >= sinceTimestamp
        /\ \/ r.author_id = userAId
           \/ r.author_id = userBId
           \/ LIKEmention(r.mentions, userAId)
           \/ LIKEmention(r.mentions, userBId)}

\* the permutations of a set of rows, as lists
Orderings(rows) ==
    {f \in [1..Cardinality(rows) -> rows] :
        \A i, j \in DOMAIN f : i # j => f[i] # f[j]}

\* ORDER BY timestamp ASC: every list of the rows in ascending order of
\* timestamp (rows of equal timestamp come in an order the statement does not
\* fix: one order is chosen for each timestamp that several rows share)
OrderByTimestampAsc(rows) ==
    LET stamps == {r.timestamp : r \in rows}
        group(t) == {r \in rows : r.timestamp = t}
        tied == {t \in stamps : Cardinality(group(t)) > 1}
        choices == {c \in [tied -> UNION {Orderings(group(t)) : t \in tied}] :
                       \A t \in tied : c[t] \in Orderings(group(t))}
        \* the rows, each with its place in the list
        placed(c) ==
            {<<Cardinality({q \in rows : q.timestamp < r.timestamp}) +
               (IF r.timestamp \in tied
                THEN CHOOSE k \in DOMAIN c[r.timestamp] : c[r.timestamp][k] = r
                ELSE 1),
               r>> : r \in rows}
    IN {[i \in 1..Cardinality(rows) |-> (CHOOSE p \in ps : p[1] = i)[2]] :
            ps \in {placed(c) : c \in choices}}

\* A bug to compare with: the last rows of the ordered list are kept, the
\* newest messages.
orderedLimited_KeepNewest(rows, limit) ==
    {SubSeq(f, Len(f) - Min(limit, Len(f)) + 1, Len(f)) :
        f \in OrderByTimestampAsc(rows)}

\* A bug to compare with: the LIMIT clause is missing.
orderedLimited_NoLimit(rows, limit) == OrderByTimestampAsc(rows)

\* ORDER BY timestamp ASC LIMIT limit: every list SQLite may return
orderedLimited(rows, limit) ==
    {SubSeq(f, 1, Min(limit, Len(f))) : f \in OrderByTimestampAsc(rows)}

\* messages.map((msg) => ({...})): a row as a ContextMessage
toContextMessage(msg) ==
    [id |-> msg.id,
     channel_id |-> msg.channel_id,
     author_id |-> msg.author_id,
     content |-> msg.content,
     timestamp |-> msg.timestamp,
     reply_to_id |-> msg.reply_to_id,
     reply_to_author_id |-> msg.reply_to_author_id,
     mentions |-> JSONparseIds(msg.mentions)]

\* getContextBetweenUsers: the lists it may return, each row as a ContextMessage
getContextBetweenUsers(table, guildId, userAId, userBId, sinceTimestamp, limit) ==
    {[i \in DOMAIN f |-> toContextMessage(f[i])] :
      f \in orderedLimited(contextRows(table, guildId, sinceTimestamp,
                                       userAId, userBId), limit)}

\* getEnvNumber('MESSAGE_RETENTION_HOURS', 24)
MessageRetentionHours == 24
\* getEnvNumber('NOTIFICATION_COOLDOWN_MINUTES', 30)
NotificationCooldownMinutes == 30

ContextWindowHours == 2
\* config.contextWindowHours * 60 * 60 * 1000, in minutes
contextWindow == ContextWindowHours * MinutesPerHour
MaxContextMessages == 100

\* toContextEntry; the display names are left out
toContextEntry(msg) ==
    [messageId |-> msg.id,
     channelId |-> msg.channel_id,
     authorId |-> msg.author_id,
     content |-> msg.content,
     timestamp |-> msg.timestamp,
     isReply |-> msg.reply_to_id # nullId,
     isMention |-> Len(msg.mentions) > 0,
     mentionedUsers |-> msg.mentions]

\* storedMessageToContextEntry
storedMessageToContextEntry(msg) ==
    toContextEntry([msg EXCEPT !.mentions = JSONparseIds(msg.mentions)])

\* entries.flatMap((e) => e.mentionedUsers), for the entries lo..hi
RECURSIVE flatMentions(_, _, _)
flatMentions(entries, lo, hi) ==
    IF lo > hi THEN <<>>
    ELSE IF lo = hi THEN entries[lo].mentionedUsers
    ELSE flatMentions(entries, lo, (lo + hi) \div 2)
         \o flatMentions(entries, (lo + hi) \div 2 + 1, hi)

\* [...new Set(list)]: the first occurrence of each element, in order
unique(list) ==
    LET firsts == {i \in DOMAIN list : \A j \in 1..(i - 1) : list[j] # list[i]}
        nth(k) == CHOOSE i \in firsts : Cardinality({j \in firsts : j < i}) = k - 1
    IN [k \in 1..Cardinality(firsts) |-> list[nth(k)]]

MaxOf(S) == CHOOSE x \in S : \A y \in S : y <= x
MinOf(S) == CHOOSE x \in S : \A y \in S : x <= y

NoChain == [triggerMessage |-> nullId]    \* buildContext returned null

\* buildContext(guildId, triggerMessageId, authorId, targetUserId) at time clock,
\* for the list contextMessages that getContextBetweenUsers returned
buildContextFrom(table, contextMessages, triggerMessageId) ==
    LET triggerMessage == getById(table, triggerMessageId)
        entries == [i \in DOMAIN contextMessages |->
                        toContextEntry(contextMessages[i])]
        triggerEntry == storedMessageToContextEntry(triggerMessage)
        timestamps == {entries[i].timestamp : i \in DOMAIN entries}
        minTime == MinOf(timestamps)
        maxTime == MaxOf(timestamps \cup {triggerEntry.timestamp})
    IN IF triggerMessage.id = nullId THEN NoChain
       ELSE IF Len(contextMessages) = 0 THEN NoChain
       ELSE [triggerMessage |-> triggerEntry,
             contextMessages |-> entries,
             involvedUsers |->
                 unique([i \in DOMAIN entries |-> entries[i].authorId]
                        \o flatMentions(entries, 1, Len(entries))),
             \* Math.round((maxTime - minTime) / (60 * 1000)), times in minutes
             timeSpanMinutes |-> maxTime - minTime]

buildContext(table, clock, guildId, triggerMessageId, authorId, targetUserId) ==
    {buildContextFrom(table, contextMessages, triggerMessageId) :
        contextMessages \in
            getContextBetweenUsers(table, guildId, authorId, targetUserId,
                                   clock - contextWindow, MaxContextMessages)}


(***************************************************************************)
(* InteractionRepository (database repository)                             *)
(***************************************************************************)
Digits == <<"0", "1", "2", "3", "4", "5", "6", "7", "8", "9">>
charCode(c) == CHOOSE i \in DOMAIN Digits : Digits[i] = c

\* a < b for two strings of digits (JavaScript compares code units)
stringLess(a, b) ==
    \E k \in 1..(Min(Len(a), Len(b)) + 1) :
        /\ \A i \in 1..(k - 1) : a[i] = b[i]
        /\ k <= Len(b)
        /\ (k <= Len(a) => charCode(a[k]) < charCode(b[k]))

\* A bug to compare with: the pair is kept in the order given.
normalize_AsGiven(userAId, userBId) == <<userAId, userBId>>

\* userAId < userBId ? [userAId, userBId] : [userBId, userAId]
normalize(userAId, userBId) ==
    IF stringLess(userAId, userBId) THEN <<userAId, userBId>>
    ELSE <<userBId, userAId>>

\* InteractionRepository.recordInteraction: the upsert on the normalized pair
recordInteraction(table, guildId, userAId, userBId, timestamp, contextChain) ==
    LET pair == normalize(userAId, userBId)
        old == {r \in table : /\ r.guild_id = guildId
                               /\ r.user_a_id = pair[1]
                               /\ r.user_b_id = pair[2]}
    IN IF old = {}
       THEN table \cup {[guild_id |-> guildId,
                         user_a_id |-> pair[1],
                         user_b_id |-> pair[2],
                         last_interaction_at |-> timestamp,
                         interaction_count |-> 1,
                         context_chain |-> JSONstringifyIds(contextChain)]}
       ELSE (table \ old) \cup
            {[r EXCEPT !.last_interaction_at = timestamp,
                       !.interaction_count = @ + 1,
                       !.context_chain = JSONstringifyIds(contextChain)] :
                r \in old}

(***************************************************************************)
(* MimamoriBot (bot): the handling of a message event.  An event carries   *)
(* what handleMessage reads of a discord.js Message.                       *)
(***************************************************************************)
noGuild == "none"                  \* message.guild of a direct message
excludedChannels == {"c9"}         \* config.excludedChannels

Idle == [pc |-> "idle"]

\* A bug to compare with: the mentions are not stored.
storedRow_NoMentions(ev) ==
    [guild_id |-> ev.guild,
     content |-> ev.content,
     mentions |-> JSONstringifyIds(<<>>),
     id |-> ev.id,
     timestamp |-> ev.createdTimestamp,
     author_id |-> ev.author,
     channel_id |-> ev.channel,
     reply_to_id |-> ev.reference,
     reply_to_author_id |-> null]

\* what storeMessage inserts for the event
storedRow(ev) ==
    [guild_id |-> ev.guild,
     content |-> ev.content,
     mentions |-> JSONstringifyIds(ev.mentions),
     id |-> ev.id,
     timestamp |-> ev.createdTimestamp,
     author_id |-> ev.author,
     channel_id |-> ev.channel,
     reply_to_id |-> ev.reference,
     reply_to_author_id |-> null]

\* recordInteractions: one recordInteraction for each of the first n mentioned
\* users that is not the author
RECURSIVE recordInteractions(_, _, _)
recordInteractions(table, ev, n) ==
    IF n = 0 THEN table
    ELSE LET before == recordInteractions(table, ev, n - 1)
         IN IF ev.mentions[n] # ev.author
            THEN recordInteraction(before, ev.guild, ev.author, ev.mentions[n],
                                   ev.createdTimestamp, <<<<ev.channel>>>>)
            ELSE before

\* A bug to compare with: the message is not in the store when its context
\* is built.
storeMessage_NotYet(table, links, ev) ==
    [messages |-> table,
     interactions |->
        IF Len(ev.mentions) > 0 \/ ev.reference # nullId
        THEN recordInteractions(links, ev, Len(ev.mentions))
        ELSE links]

\* storeMessage: the tables after it
storeMessage(table, links, ev) ==
    [messages |-> insert(table, storedRow(ev)),
     interactions |->
        IF Len(ev.mentions) > 0 \/ ev.reference # nullId
        THEN recordInteractions(links, ev, Len(ev.mentions))
        ELSE links]

\* checkAndAnalyze: the reply author looked up in the store
replyAuthor(table, ev) ==
    IF ev.reference # nullId /\ getById(table, ev.reference).id # nullId
    THEN getById(table, ev.reference).author_id
    ELSE null

(***************************************************************************)
(* The history of a directional pair: how many verdicts were recorded, how *)
(* many of them concerning, how often each threshold was reported, the     *)
(* trend stored before the last call and trendChanged of the last two,     *)
(* how many concerning verdicts had each severity and each known issue     *)
(* type, and the sum of the confidences of the concerning verdicts.        *)
(***************************************************************************)
NoHistory ==
    [calls |-> 0, concerning |-> 0,
     reports |-> [th \in Range(thresholds) |-> 0],
     trendBefore |-> 0,
     lastTrendChanged |-> FALSE, prevTrendChanged |-> FALSE,
     severities |-> [k \in Range(SeverityKeys) |-> 0],
     issues |-> [k \in Range(IssueKeys) |-> 0],
     confidence |-> 0]

NoCall == [called |-> FALSE]

\* One call of recordAnalysis on a state st = [signals, snapshots, hist, call].
AggStep(st, clock, g, s, t, result) ==
    LET r == recordAnalysis(st.signals, st.snapshots, clock, g, s, t, result)
        h == st.hist[<<g, s, t>>]
        before == getSignal(st.signals, g, s, t)
    IN [signals |-> r.signals,
        snapshots |-> r.snapshots,
        hist |-> [st.hist EXCEPT ![<<g, s, t>>] =
            [calls |-> h.calls + 1,
             concerning |-> h.concerning + (IF result.isConcerning THEN 1 ELSE 0),
             reports |-> [th \in Range(thresholds) |->
                 h.reports[th] +
                 (IF r.ret.isNewConcern /\ r.ret.signal.concerning_count = th
                  THEN 1 ELSE 0)],
             trendBefore |-> IF before = NoSignal THEN 0 ELSE before.trend,
             lastTrendChanged |-> r.ret.trendChanged,
             prevTrendChanged |-> h.lastTrendChanged,
             severities |-> [k \in Range(SeverityKeys) |->
                 h.severities[k] +
                 (IF result.isConcerning /\ result.severity = k THEN 1 ELSE 0)],
             issues |-> [k \in Range(IssueKeys) |->
                 h.issues[k] +
                 (IF result.isConcerning /\ result.issueType = k THEN 1 ELSE 0)],
             confidence |-> h.confidence +
                 (IF result.isConcerning THEN result.confidence ELSE 0)]],
        call |-> [called |-> TRUE,
                  guildId |-> g, sourceUserId |-> s, targetUserId |-> t,
                  result |-> result,
                  ret |-> r.ret]]

(***************************************************************************)
(* Verdicts of the external analyzer                                       *)
(***************************************************************************)
Concerning == [isConcerning |-> TRUE, severity |-> "high",
               issueType |-> "harassment", confidence |-> 80]
NotConcerning == [isConcerning |-> FALSE, severity |-> "low",
                  issueType |-> "none", confidence |-> 50]
Verdicts == {Concerning, NotConcerning}

(***************************************************************************)
(* Actions                                                                 *)
(***************************************************************************)
\* checkAndAnalyze, after the analyzer has answered: recordAnalysis runs to its
\* end without yielding, so handlers in flight interleave as whole calls.
RecordAnalysis(g, s, t, result) ==
    LET st == AggStep([signals |-> user_signals, snapshots |-> daily_snapshots,
                       hist |-> hist, call |-> aggCall], now, g, s, t, result)
    IN /\ user_signals' = st.signals
       /\ daily_snapshots' = st.snapshots
       /\ hist' = st.hist
       /\ aggCall' = st.call
       /\ UNCHANGED <<db, alerts, cleanup, interactions, handlers, now, trendIn, trendOut, trigIn, trigOut, messages, chain>>

\* Time passes.
AdvanceClock(d) ==
    /\ now' = now + d
    /\ chain' = NoCall
    /\ UNCHANGED <<db, alerts, cleanup, interactions, handlers, user_signals, daily_snapshots, aggCall, hist, trendIn, trendOut,
                   trigIn, trigOut, messages>>

\* checkTrigger called on the arguments trigIn
ApplyTrigger ==
    /\ ~trigOut.done
    /\ trigOut' = [done |-> TRUE,
                   trigger |-> checkTrigger(trigIn.content, trigIn.authorId,
                                            trigIn.mentions, trigIn.replyToAuthorId)]
    /\ UNCHANGED <<db, alerts, cleanup, interactions, handlers, now, user_signals, daily_snapshots, aggCall, hist,
                   trendIn, trendOut, trigIn, messages, chain>>

\* MessageRepository.insert
Insert(message) ==
    /\ messages' = insert(messages, message)
    /\ chain' = NoCall
    /\ UNCHANGED <<db, alerts, cleanup, interactions, handlers, now, user_signals, daily_snapshots, aggCall, hist,
                   trendIn, trendOut, trigIn, trigOut>>

\* buildContext called now; chain keeps the call and what it returned
BuildContext(guildId, triggerMessageId, authorId, targetUserId) ==
    /\ \E c \in buildContext(messages, now, guildId, triggerMessageId,
                              authorId, targetUserId) :
          chain' = [called |-> TRUE,
                    guildId |-> guildId,
                    triggerMessageId |-> triggerMessageId,
                    authorId |-> authorId,
                    targetUserId |-> targetUserId,
                    at |-> now,
                    result |-> c]
    /\ UNCHANGED <<db, alerts, cleanup, interactions, handlers, now, user_signals, daily_snapshots, aggCall, hist,
                   trendIn, trendOut, trigIn, trigOut, messages>>

\* calculateTrend called on the snapshots trendIn
ApplyTrend ==
    /\ ~trendOut.done
    /\ trendOut' = [done |-> TRUE, value |-> calculateTrend(trendIn)]
    /\ UNCHANGED <<db, alerts, cleanup, interactions, handlers, now, user_signals, daily_snapshots, aggCall, hist, trendIn,
                   trigIn, trigOut, messages, chain>>

(***************************************************************************)
(* Spec: the aggregator on an empty database.  Verdicts for the pair       *)
(* 1 -> 2 and for the opposite pair 2 -> 1 arrive in any order.            *)
(***************************************************************************)
MainPair == <<"g1", U1, U2>>
OtherPair == <<"g1", U2, U1>>

NoSignals ==
    /\ user_signals = {}
    /\ daily_snapshots = {}
    /\ aggCall = NoCall
    /\ hist = [p \in Pairs |-> NoHistory]

NoMessages ==
    /\ messages = {}
    /\ chain = NoCall

\* MimamoriBot after start(): this.db is the open database, no statement was
\* refused
Started == [open |-> TRUE, refused |-> {}]

\* no alert is recorded, the cleanup job, with the default retention, has not
\* run, and the bot is started
NoAlerts ==
    /\ alerts = {}
    /\ cleanup = [messageRetentionHours |-> MessageRetentionHours, ran |-> FALSE]
    /\ db = Started

\* no interaction is recorded and no message event has arrived
NoHandlers ==
    /\ interactions = {}
    /\ handlers = [id \in 1..MaxBotMsgs |-> Idle]

InitAgg ==
    /\ now = 0
    /\ NoSignals
    /\ NoMessages
    /\ NoHandlers
    /\ NoAlerts

NoTrigger ==
    /\ trigIn = [called |-> FALSE]
    /\ trigOut = [done |-> FALSE]

NoTrend ==
    /\ trendIn = <<>>
    /\ trendOut = [done |-> FALSE]

Init ==
    /\ InitAgg
    /\ NoTrend
    /\ NoTrigger

RecordMain ==
    \E v \in Verdicts :
        /\ hist[MainPair].calls < MaxCalls
        /\ RecordAnalysis(MainPair[1], MainPair[2], MainPair[3], v)

RecordOther ==
    \E v \in Verdicts :
        /\ hist[OtherPair].calls < MaxOtherCalls
        /\ RecordAnalysis(OtherPair[1], OtherPair[2], OtherPair[3], v)

Next == RecordMain \/ RecordOther

Spec == Init /\ [][Next]_vars

(***************************************************************************)
(* Claims about the aggregator on an empty database (Spec)                 *)
(***************************************************************************)
StoredCount(p) ==
    LET sig == getSignal(user_signals, p[1], p[2], p[3])
    IN IF sig = NoSignal THEN 0 ELSE sig.concerning_count

StoredTotal(p) ==
    LET sig == getSignal(user_signals, p[1], p[2], p[3])
    IN IF sig = NoSignal THEN 0 ELSE sig.total_interactions

\* C1: a recordAnalysis call returns isNewConcern = true exactly when its
\* verdict is concerning and the concerning count it leaves is 3, 5, 10 or 20.
C1_NewConcernExactlyAtThresholds ==
    aggCall.called =>
        (aggCall.ret.isNewConcern <=>
            (/\ aggCall.result.isConcerning
             /\ aggCall.ret.signal.concerning_count \in {3, 5, 10, 20}))

\* C1 witness: the call that brings the pair's concerning count to 20 reports it.
C1_Witness ==
    /\ aggCall.called
    /\ aggCall.ret.isNewConcern
    /\ aggCall.ret.signal.concerning_count = 20
    /\ hist[MainPair].calls > 20

\* C2: for every pair the stored total_interactions is the number of calls made
\* for it and the stored concerning_count the number of concerning ones, so
\* concerning_count <= total_interactions.
C2_CountsMatchCalls ==
    \A p \in Pairs :
        /\ StoredTotal(p) = hist[p].calls
        /\ StoredCount(p) = hist[p].concerning
        /\ StoredCount(p) <= StoredTotal(p)

\* C2 witness: a pair with a mix of concerning and other verdicts recorded.
C2_Witness ==
    /\ StoredTotal(MainPair) = 7
    /\ StoredCount(MainPair) = 3
    /\ StoredTotal(OtherPair) = 2

\* C9: no threshold of a pair is reported by more than one call, and the stored
\* concerning count of a pair never decreases.
C9_ThresholdReportedOnce ==
    /\ [](\A p \in Pairs : \A th \in Range(thresholds) : hist[p].reports[th] <= 1)
    /\ [][\A p \in Pairs : StoredCount(p)' >= StoredCount(p)]_vars

\* C9 witness: each of the four thresholds has been reported for the pair, with
\* calls for the opposite pair in between.
C9_Witness ==
    /\ \A th \in Range(thresholds) : hist[MainPair].reports[th] = 1
    /\ hist[OtherPair].calls > 0

(***************************************************************************)
(* SpecTrend: calculateTrend on its own.  The snapshots passed in are up   *)
(* to three runs of equal counts, newest day first.                        *)
(***************************************************************************)
Rep(k, v) == [i \in 1..k |-> v]

TrendCounts ==
    {Rep(k1, a) \o Rep(k2, b) \o Rep(k3, c) :
        k1 \in 0..MaxRun, k2 \in 0..MaxRun, k3 \in 0..MaxRun,
        a \in 0..MaxCount, b \in 0..MaxCount, c \in 0..MaxCount}

\* the rows getRecentSnapshots returns for these counts: one per day, newest first
SnapshotRows(counts) ==
    [i \in DOMAIN counts |->
        [guild_id |-> "g1", source_user_id |-> U1, target_user_id |-> U2,
         date |-> Len(counts) - i,
         interaction_count |-> 1,
         concerning_count |-> counts[i],
         avg_severity |-> IF counts[i] > 0 THEN 1 ELSE 0,
         primary_issue_type |-> IF counts[i] > 0 THEN "harassment" ELSE "null"]]

InitTrend ==
    /\ InitAgg
    /\ trendIn \in {SnapshotRows(c) : c \in TrendCounts}
    /\ trendOut = [done |-> FALSE]
    /\ NoTrigger

NextTrend == ApplyTrend

SpecTrend == InitTrend /\ [][NextTrend]_vars

\* the sum of the concerning counts of rows lo..hi (1-based) of trendIn
RECURSIVE CountsFromTo(_, _)
CountsFromTo(lo, hi) ==
    IF lo > hi THEN 0
    ELSE trendIn[lo].concerning_count + CountsFromTo(lo + 1, hi)

\* C6: with fewer than 14 snapshots calculateTrend returns 0, whatever they hold.
C6_TrendZeroBelow14 ==
    (trendOut.done /\ Len(trendIn) < 14) => trendOut.value = 0

\* C6 witness: 13 snapshots, the 7 newest all higher than the 6 before them.
C6_Witness ==
    /\ trendOut.done
    /\ Len(trendIn) = 13
    /\ \A i \in 1..7 : trendIn[i].concerning_count = 2
    /\ \A i \in 8..13 : trendIn[i].concerning_count = 0

\* C7: with at least 14 snapshots, newest first, the trend is +1 iff the mean of
\* rows 0-6 exceeds the mean of rows 7-13 by more than 0.5 (for whole counts: the
\* sum is higher by at least 4), -1 iff it is lower by more than 0.5 (the sum is
\* lower by at least 4) and 0 otherwise; seven days of 0 followed by seven days
\* of 2 give +1.
C7_TrendByHalvesOfFourteen ==
    (trendOut.done /\ Len(trendIn) >= 14) =>
        LET r == CountsFromTo(1, 7)
            p == CountsFromTo(8, 14)
        IN /\ trendOut.value \in {-1, 0, 1}
           /\ trendOut.value = 1 <=> 2 * (r - p) > 7
           /\ trendOut.value = 1 <=> r - p >= 4
           /\ trendOut.value = -1 <=> 2 * (r - p) < -7
           /\ trendOut.value = -1 <=> p - r >= 4
           /\ (/\ \A i \in 1..7 : trendIn[i].concerning_count = 2
               /\ \A i \in 8..14 : trendIn[i].concerning_count = 0)
              => trendOut.value = 1

\* C7 witness: seven days of 0 followed by seven days of 2, and the trend is +1.
C7_Witness ==
    /\ trendOut.done
    /\ Len(trendIn) = 14
    /\ \A i \in 1..7 : trendIn[i].concerning_count = 2
    /\ \A i \in 8..14 : trendIn[i].concerning_count = 0
    /\ trendOut.value = 1

(***************************************************************************)
(* SpecHist: the aggregator on a database that already holds HistDays days *)
(* of the pair 1 -> 2, one verdict a day (the tables are created IF NOT    *)
(* EXISTS and outlive the process).  The history is replayed through       *)
(* recordAnalysis, so the first state is one the program reaches.          *)
(***************************************************************************)
HistoryVerdicts ==
    {Rep(k, v1) \o Rep(HistDays - k, v2) :
        k \in 0..HistDays, v1 \in Verdicts, v2 \in Verdicts}

RECURSIVE Replay(_, _)
Replay(vs, n) ==
    IF n = 0
    THEN [signals |-> {}, snapshots |-> {},
          hist |-> [p \in Pairs |-> NoHistory], call |-> NoCall]
    ELSE AggStep(Replay(vs, n - 1), (n - 1) * MinutesPerDay,
                 MainPair[1], MainPair[2], MainPair[3], vs[n])

InitHist ==
    /\ \E vs \in HistoryVerdicts :
          LET st == Replay(vs, Len(vs))
          IN /\ user_signals = st.signals
             /\ daily_snapshots = st.snapshots
             /\ hist = st.hist
             /\ aggCall = st.call
             /\ now = Len(vs) * MinutesPerDay
    /\ NoMessages
    /\ NoHandlers
    /\ NoAlerts
    /\ NoTrend
    /\ NoTrigger

RecordHist ==
    \E v \in Verdicts :
        /\ hist[MainPair].calls < HistDays + MaxHistCalls
        /\ RecordAnalysis(MainPair[1], MainPair[2], MainPair[3], v)

PassDay ==
    /\ now < (HistDays + MaxHistDays) * MinutesPerDay
    /\ AdvanceClock(MinutesPerDay)

NextHist == RecordHist \/ PassDay

SpecHist == InitHist /\ [][NextHist]_vars

StoredTrend(p) ==
    LET sig == getSignal(user_signals, p[1], p[2], p[3])
    IN IF sig = NoSignal THEN 0 ELSE sig.trend

\* C8: the last call for a pair returned trendChanged = true iff the trend stored
\* before it differs from the trend stored now and that is +1; trendChanged is
\* never true for two calls in a row for the same pair.
C8_TrendWorsenedOnTransition ==
    \A p \in Pairs :
        hist[p].calls > 0 =>
            /\ hist[p].lastTrendChanged <=>
                  (hist[p].trendBefore # StoredTrend(p) /\ StoredTrend(p) = 1)
            /\ ~(hist[p].lastTrendChanged /\ hist[p].prevTrendChanged)

\* C8 witness: a call reported the worsening, and the next call for the pair,
\* with the trend still +1, did not.
C8_Witness ==
    /\ hist[MainPair].prevTrendChanged
    /\ ~hist[MainPair].lastTrendChanged
    /\ hist[MainPair].trendBefore = 1
    /\ StoredTrend(MainPair) = 1

(***************************************************************************)
(* SpecTrig: checkTrigger on its own, over contents that match up to       *)
(* MaxMatched of the keyword and pattern lists and have one of four tones. *)
(***************************************************************************)
Matchers == PatternLists \cup {"OBVIOUS"}

Tones == {[bangs |-> 2, length |-> 10, upper |-> TRUE],    \* "HEY!! STOP"
          [bangs |-> 3, length |-> 5, upper |-> FALSE],    \* "no!!!"
          [bangs |-> 0, length |-> 11, upper |-> TRUE],    \* "LISTEN TOME"
          [bangs |-> 0, length |-> 11, upper |-> FALSE]}   \* "listen here"

Contents ==
    {[obvious |-> "OBVIOUS" \in m, patterns |-> m \ {"OBVIOUS"},
      bangs |-> t.bangs, length |-> t.length, upper |-> t.upper] :
        m \in {x \in SUBSET Matchers : Cardinality(x) <= MaxMatched}, t \in Tones}

MentionLists == {<<>>} \cup {<<u>> : u \in Users}
                    \cup {<<u, v>> : u \in Users, v \in Users}

InitTrig ==
    /\ InitAgg
    /\ NoTrend
    /\ trigIn \in [called : {TRUE}, content : Contents, authorId : Users,
                   mentions : MentionLists, replyToAuthorId : Users \cup {null}]
    /\ trigOut = [done |-> FALSE]

NextTrig == ApplyTrigger

SpecTrig == InitTrig /\ [][NextTrig]_vars

\* the counterpart of the message in trigIn: the reply author if known,
\* otherwise the first mentioned user, otherwise none
Counterpart ==
    IF trigIn.replyToAuthorId \in Users THEN trigIn.replyToAuthorId
    ELSE IF Len(trigIn.mentions) > 0 THEN trigIn.mentions[1]
    ELSE undefined

Untargeted == {"LABELING", "ESCALATION", "GENERALIZING", "INSULT", "THREAT",
               "GENDER_BIAS", "AGE_BIAS"}
Targeted == {"JUDGMENTAL", "COMPETENCE_DENIAL", "CONDESCENDING", "DISMISSIVE",
             "PUBLIC_HUMILIATION"}

MatchesUntargeted == trigIn.content.patterns \cap Untargeted # {}

MatchesTargeted ==
    \/ trigIn.content.obvious
    \/ trigIn.content.patterns \cap Targeted # {}
    \/ trigIn.content.bangs >= 3
    \/ (trigIn.content.length > 10 /\ trigIn.content.upper)

\* C3: when the counterpart of the message is its author, checkTrigger returns
\* shouldAnalyze = false, whatever the content matches.
C3_SelfMentionNeverAnalyzed ==
    (trigOut.done /\ Counterpart = trigIn.authorId) =>
        ~trigOut.trigger.shouldAnalyze

\* C3 witness: a self-reply whose content matches an untargeted-capable and a
\* targeted category.
C3_Witness ==
    /\ trigOut.done
    /\ trigIn.replyToAuthorId = trigIn.authorId
    /\ "INSULT" \in trigIn.content.patterns
    /\ trigIn.content.obvious
    /\ ~trigOut.trigger.shouldAnalyze

\* C4: shouldAnalyze is true exactly when the message is no self-mention and
\* either an untargeted-capable category matches, or a targeted category
\* matches and there is a counterpart.
C4_AnyMatchDecides ==
    trigOut.done =>
        (trigOut.trigger.shouldAnalyze <=>
            /\ Counterpart # trigIn.authorId
            /\ \/ MatchesUntargeted
               \/ (MatchesTargeted /\ Counterpart # undefined))

\* C4 witness: no counterpart, and the content matches only targeted
\* categories (two of them): not analyzed.
C4_Witness ==
    /\ trigOut.done
    /\ Counterpart = undefined
    /\ trigIn.content.obvious
    /\ trigIn.content.patterns = {"DISMISSIVE"}
    /\ trigIn.content.bangs >= 3
    /\ ~trigOut.trigger.shouldAnalyze

\* C5: when shouldAnalyze is true, targetUserId is the reply author if known,
\* otherwise the first mentioned user, otherwise the author.
C5_TargetIsCounterpartOrAuthor ==
    (trigOut.done /\ trigOut.trigger.shouldAnalyze) =>
        trigOut.trigger.targetUserId =
            (IF trigIn.replyToAuthorId \in Users THEN trigIn.replyToAuthorId
             ELSE IF Len(trigIn.mentions) > 0 THEN trigIn.mentions[1]
             ELSE trigIn.authorId)

\* C5 witness: a reply to one user that mentions another first; the target is
\* the reply author.
C5_Witness ==
    /\ trigOut.done
    /\ trigOut.trigger.shouldAnalyze
    /\ trigIn.replyToAuthorId = U2
    /\ trigIn.mentions = <<U1, U2>>
    /\ trigIn.authorId = U1
    /\ trigOut.trigger.targetUserId = U2

(***************************************************************************)
(* SpecCtx: the MessageStore and buildContext.  Messages of three users    *)
(* (ids 1, 2 and 12) in two guilds and three channels are stored; context  *)
(* is built for the pairs of users 1 and 2.                                *)
(***************************************************************************)
CtxUsers == {U1, U2, U12}
Places == {<<"g1", "c1">>, <<"g1", "c2">>, <<"g2", "c3">>}
Stamps == {0, 1}
Clocks == {contextWindow, contextWindow + 1}
CtxMentions == {<<>>, <<U12>>, <<U12, U2>>}
CtxPairs == {<<U1, U2>>, <<U2, U1>>, <<U1, U1>>}

\* what storeMessage inserts for a message event
StoredMessage(id, place, authorId, timestamp, mentions) ==
    [guild_id |-> place[1],
     content |-> "text",
     mentions |-> JSONstringifyIds(mentions),
     id |-> id,
     timestamp |-> timestamp,
     author_id |-> authorId,
     channel_id |-> place[2],
     reply_to_id |-> nullId,
     reply_to_author_id |-> null]

InitCtx ==
    /\ now = contextWindow
    /\ NoSignals
    /\ NoMessages
    /\ NoHandlers
    /\ NoAlerts
    /\ NoTrend
    /\ NoTrigger

InsertCtx ==
    \E id \in 1..MaxMsgs, place \in Places, u \in CtxUsers, ts \in Stamps,
       ms \in CtxMentions :
        Insert(StoredMessage(id, place, u, ts, ms))

BuildCtx ==
    \E id \in 1..MaxMsgs, p \in CtxPairs : BuildContext("g1", id, p[1], p[2])

TickCtx == (now + 1) \in Clocks /\ AdvanceClock(1)

NextCtx == InsertCtx \/ BuildCtx \/ TickCtx

SpecCtx == InitCtx /\ [][NextCtx]_vars

\* the chain the last step's buildContext call returned, or none
Returned == chain.called /\ "contextMessages" \in DOMAIN chain.result

\* the stored messages that qualify for the context of the call in chain
Qualifying ==
    {r \in messages :
        /\ r.guild_id = chain.guildId
        /\ r.timestamp >= chain.at - contextWindow
        /\ \/ r.author_id \in {chain.authorId, chain.targetUserId}
           \/ \E i \in DOMAIN JSONparseIds(r.mentions) :
                 JSONparseIds(r.mentions)[i] \in {chain.authorId, chain.targetUserId}}

\* C10: in a returned chain, when at most maxMessages messages qualify,
\* contextMessages holds each stored message of the guild with timestamp >=
\* now - window that is by, or mentions, the author or the target, once and
\* with its own channel and author, and holds no other message.
C10_ContextIsThePairsMessages ==
    (Returned /\ Cardinality(Qualifying) <= MaxContextMessages) =>
        LET entries == chain.result.contextMessages
        IN /\ Len(entries) = Cardinality(Qualifying)
           /\ \A r \in Qualifying :
                 \E i \in DOMAIN entries :
                     /\ entries[i].messageId = r.id
                     /\ entries[i].channelId = r.channel_id
                     /\ entries[i].authorId = r.author_id
                     /\ entries[i].timestamp = r.timestamp

\* a chain is returned while the store holds a message of a third user, in the
\* channel and at the time of an included message, that mentions neither end
C10_Witness ==
    /\ Returned
    /\ chain.authorId # chain.targetUserId
    /\ \E r \in messages, i \in DOMAIN chain.result.contextMessages :
          /\ \A q \in Qualifying : q.id # r.id
          /\ r.guild_id = chain.guildId
          /\ r.channel_id = chain.result.contextMessages[i].channelId
          /\ r.timestamp = chain.result.contextMessages[i].timestamp
          /\ r.mentions = JSONstringifyIds(<<U12>>)

\* C11: buildContext returns null when the trigger message id is not stored and
\* when no stored message qualifies for the window query; a buildContext call
\* changes no table.
C11_NoneWithoutTriggerOrContext ==
    /\ [](chain.called =>
            (((\A r \in messages : r.id # chain.triggerMessageId)
                 \/ Qualifying = {})
              => chain.result = NoChain))
    /\ [][chain'.called =>
            UNCHANGED <<messages, user_signals, daily_snapshots>>]_vars

\* C11 witness: null is returned for a stored trigger message, the store
\* holding a message of the author in the guild that is older than the window.
C11_Witness ==
    /\ chain.called
    /\ chain.result = NoChain
    /\ \E r \in messages : r.id = chain.triggerMessageId
    /\ \E r \in messages :
          /\ r.guild_id = chain.guildId
          /\ r.author_id = chain.authorId
          /\ r.timestamp < chain.at - contextWindow

(***************************************************************************)
(* SpecCap: buildContext on a busy guild.  The store holds one message a   *)
(* minute, MaxContextMessages - 1 of them, by users 1, 2 and 12 in turn    *)
(* (12 mentioning 12 and 2), numbered in the order of their timestamps or  *)
(* against it; further messages arrive in the current minute.              *)
(***************************************************************************)
BusyAuthor(i) == IF i % 3 = 1 THEN U1 ELSE IF i % 3 = 2 THEN U2 ELSE U12

BusyStore(n, ascending) ==
    {StoredMessage(i, <<"g1", IF i % 2 = 0 THEN "c1" ELSE "c2">>, BusyAuthor(i),
                   IF ascending THEN i ELSE n + 1 - i,
                   IF BusyAuthor(i) = U12 THEN <<U12, U2>> ELSE <<>>) :
        i \in 1..n}

InitCap ==
    /\ now = contextWindow
    /\ NoSignals
    /\ NoTrend
    /\ NoTrigger
    /\ messages \in {BusyStore(MaxContextMessages - 1, asc) : asc \in BOOLEAN}
    /\ chain = NoCall
    /\ NoHandlers
    /\ NoAlerts

InsertCap ==
    /\ Cardinality(messages) < MaxContextMessages + MaxOverCap
    /\ \E u \in {U1, U12} :
          Insert(StoredMessage(Cardinality(messages) + 1, <<"g1", "c1">>, u,
                               now, <<>>))

BuildCap ==
    \E id \in {1, MaxContextMessages}, p \in CtxPairs :
        BuildContext("g1", id, p[1], p[2])

NextCap == InsertCap \/ BuildCap

SpecCap == InitCap /\ [][NextCap]_vars

\* C12: in every chain buildContext returns, contextMessages is in
\* non-decreasing order of timestamp and has at most 100 entries.
C12_OldestFirstAtMostCap ==
    Returned =>
        LET entries == chain.result.contextMessages
        IN /\ Len(entries) <= MaxContextMessages
           /\ \A i \in DOMAIN entries : \A j \in DOMAIN entries :
                 i < j => entries[i].timestamp <= entries[j].timestamp

\* C12 witness: more messages qualify than the cap, among them messages numbered
\* against their timestamps, and the chain holds exactly 100 of them.
C12_Witness ==
    /\ Returned
    /\ Cardinality(Qualifying) > MaxContextMessages
    /\ Len(chain.result.contextMessages) = MaxContextMessages
    /\ \E q \in Qualifying, r \in Qualifying :
          q.id < r.id /\ q.timestamp > r.timestamp


(***************************************************************************)
(* SpecBot: the bot receives message events.  handleMessage runs without   *)
(* yielding up to its first await (the analyzer's answer), and the event   *)
(* handler does not wait for it (void this.handleMessage(message)), so the *)
(* next event is received while earlier handlers are suspended.            *)
(*                                                                         *)
(* Two users write in one guild, with or without a mention of the other,   *)
(* with or without a reference to message 1; one event mentions its own    *)
(* author, one is by a bot, one is a direct message and one is posted in   *)
(* an excluded channel.                                                    *)
(***************************************************************************)
MaxBotTicks == 1      \* minutes that pass while the bot runs
BotStart == 1000      \* the time at which the bot starts

\* the content "你們工程師就是這樣": it matches GENERALIZING_PATTERNS only
GeneralizingText ==
    [obvious |-> FALSE, patterns |-> {"GENERALIZING"},
     bangs |-> 0, length |-> 9, upper |-> TRUE]
\* the content "ok": it matches nothing
PlainText ==
    [obvious |-> FALSE, patterns |-> {},
     bangs |-> 0, length |-> 2, upper |-> FALSE]

Other(u) == IF u = U1 THEN U2 ELSE U1

Event(id, isBot, guild, channel, author, content, mentions, reference) ==
    [id |-> id, bot |-> isBot, guild |-> guild, channel |-> channel,
     author |-> author, content |-> content, createdTimestamp |-> now,
     mentions |-> mentions, reference |-> reference]

\* message.reference?.messageId: none, or the first message
References(id) == {nullId} \cup ({1} \ {id})

Events(id) ==
    {Event(id, FALSE, "g1", "c1", u, c, <<>>, ref) :
        u \in Users, c \in {GeneralizingText, PlainText}, ref \in References(id)}
    \cup {Event(id, FALSE, "g1", "c1", u, c, <<Other(u)>>, ref) :
        u \in Users, c \in {GeneralizingText, PlainText}, ref \in References(id)}
    \cup {Event(id, FALSE, "g1", "c1", U1, GeneralizingText, <<U1>>, nullId),
          Event(id, TRUE, "g1", "c1", U2, GeneralizingText, <<U1>>, nullId),
          Event(id, FALSE, noGuild, "c1", U2, GeneralizingText, <<U1>>, nullId),
          Event(id, FALSE, "g1", "c9", U2, GeneralizingText, <<U1>>, nullId)}

\* A bug to compare with: recordAnalysis works on the signal the handler read
\* before it awaited the analyzer.
signalsRead_BeforeAwait(table, seen, g, s, t) ==
    {r \in table : ~SameSignalKey(r, g, s, t)}
        \cup (IF seen = NoSignal THEN {} ELSE {seen})

\* the table recordAnalysis reads: the one of the time it runs, whatever
\* getSignalContext had seen before the await
signalsRead(table, seen, g, s, t) == table

Finished(ev, outcome) == [pc |-> "done", message |-> ev, outcome |-> outcome]

(***************************************************************************)
(* AlertRepository (database repository) and Notifier.  The clock of the   *)
(* model counts minutes: Date.now() is in milliseconds, and the default of *)
(* the column alerted_at, unixepoch(), is in seconds.                      *)
(***************************************************************************)
SecondsPerMinute == 60
MsPerSecond == 1000
DateNow(clock) == clock * SecondsPerMinute * MsPerSecond
unixepoch(clock) == clock * SecondsPerMinute

\* AlertRepository.getByMessage: the rows found
getByMessage(table, messageId) == {r \in table : r.message_id = messageId}

\* AlertRepository.hasRecentAlert
hasRecentAlert(table, authorId, sinceTimestamp) ==
    {r \in table : r.author_id = authorId /\ r.alerted_at >= sinceTimestamp} # {}

\* A bug to compare with: the alert is inserted beside the one of the message.
insertAlert_Again(table, alert, clock) ==
    table \cup {[message_id |-> alert.message_id,
                 guild_id |-> alert.guild_id,
                 channel_id |-> alert.channel_id,
                 author_id |-> alert.author_id,
                 severity |-> alert.severity,
                 alerted_at |-> unixepoch(clock)]}

\* AlertRepository.insert at time clock: INSERT OR IGNORE under
\* UNIQUE(message_id), alerted_at taking its default
insertAlert(table, alert, clock) ==
    IF getByMessage(table, alert.message_id) # {} THEN table
    ELSE table \cup {[message_id |-> alert.message_id,
                      guild_id |-> alert.guild_id,
                      channel_id |-> alert.channel_id,
                      author_id |-> alert.author_id,
                      severity |-> alert.severity,
                      alerted_at |-> unixepoch(clock)]}

\* Notifier.notify up to its first await: the reason to skip, or "send"
notifyChecks(table, clock, ev, result) ==
    LET cooldownTimestamp ==
            DateNow(clock) - NotificationCooldownMinutes * SecondsPerMinute * MsPerSecond
    IN IF ~result.isConcerning THEN "not_concerning"
       ELSE IF getByMessage(table, ev.id) # {} THEN "duplicate"
       ELSE IF hasRecentAlert(table, ev.author, cooldownTimestamp) THEN "cooldown"
       ELSE "send"

\* the NotificationResult notify returns for what happened: the reason it
\* skipped the message for, "delivered", or the error of fetchUser or sendDM
NotificationResult(notification) ==
    IF notification = "delivered" THEN [success |-> TRUE]
    ELSE IF notification \in {"not_concerning", "duplicate", "cooldown", "dm_disabled"}
    THEN [success |-> FALSE, skipped |-> TRUE, skipReason |-> notification]
    ELSE [success |-> FALSE, reason |-> notification]

\* what fetchUser and sendDM may do: the DM is delivered, the user is not
\* found, the user has DMs disabled, or the API fails otherwise
DMOutcomes == {"delivered", "User not found", "dm_disabled", "Unknown error"}

\* handleMessage up to the first await of checkAndAnalyze, or to its return
Receive(ev) ==
    /\ handlers[ev.id].pc = "idle"
    /\ \A i \in 1..(ev.id - 1) : handlers[i].pc # "idle"
    /\ IF ev.bot \/ ev.guild = noGuild \/ ev.channel \in excludedChannels
       THEN /\ handlers' = [handlers EXCEPT ![ev.id] = Finished(ev, "ignored")]
            /\ UNCHANGED <<messages, interactions, chain>>
       ELSE LET stored == storeMessage(messages, interactions, ev)
                trigger == checkTrigger(ev.content, ev.author, ev.mentions,
                                        replyAuthor(stored.messages, ev))
            IN /\ messages' = stored.messages
               /\ interactions' = stored.interactions
               /\ IF ~trigger.shouldAnalyze \/ trigger.targetUserId = undefined
                  THEN /\ handlers' = [handlers EXCEPT ![ev.id] =
                                          [Finished(ev, "no trigger") EXCEPT
                                              !.outcome = trigger.reason]]
                       /\ chain' = NoCall
                  ELSE \E c \in buildContext(stored.messages, now, ev.guild, ev.id,
                                             ev.author, trigger.targetUserId) :
                          /\ chain' = [called |-> TRUE,
                                       guildId |-> ev.guild,
                                       triggerMessageId |-> ev.id,
                                       authorId |-> ev.author,
                                       targetUserId |-> trigger.targetUserId,
                                       at |-> now,
                                       result |-> c]
                          /\ handlers' = [handlers EXCEPT ![ev.id] =
                                IF c = NoChain THEN Finished(ev, "no context")
                                ELSE [pc |-> "analyzing", message |-> ev,
                                      trigger |-> trigger, context |-> c,
                                      signal |-> getSignal(user_signals, ev.guild,
                                                           ev.author,
                                                           trigger.targetUserId)]]
    /\ UNCHANGED <<db, now, user_signals, daily_snapshots, aggCall, hist,
                   trendIn, trendOut, trigIn, trigOut, alerts, cleanup>>

(***************************************************************************)
(* ClaudeAnalyzer / GeminiAnalyzer (analyzer providers).  The provider's   *)
(* call throws, answers without text, or answers a text; of a text the     *)
(* model keeps what the two regular expressions of parseAnalysisResponse   *)
(* extract (the part from the first { to the last }, inside the code       *)
(* fence if there is one): either something JSON.parse rejects, or an      *)
(* object, given by its fields.                                            *)
(***************************************************************************)
ProviderThrows == [kind |-> "throws"]
NoTextContent == [kind |-> "no text"]
Text(fenced, json) == [kind |-> "text", fenced |-> fenced, json |-> json]

InvalidJSON == [syntax |-> "invalid"]
Object(fields) == [syntax |-> "object", fields |-> fields]
jsBoolean(value) == [type |-> "boolean", value |-> value]
jsString(value) == [type |-> "string", value |-> value]
jsNumber(value) == [type |-> "number", value |-> value]    \* in hundredths

\* the text of the JSON object that states verdict v
TextOf(v) ==
    Text(TRUE, Object([isConcerning |-> jsBoolean(v.isConcerning),
                       severity |-> jsString(v.severity),
                       issueType |-> jsString(v.issueType),
                       confidence |-> jsNumber(v.confidence)]))

NotParsed == [parsed |-> FALSE]              \* parseAnalysisResponse returned null

\* parsed[key] ?? otherwise
orElse(fields, key, otherwise) ==
    IF key \in DOMAIN fields THEN fields[key].value ELSE otherwise

\* parseAnalysisResponse; the confidence 0.5 is 50 hundredths
parseAnalysisResponse(response) ==
    IF response.json.syntax # "object" THEN NotParsed
    ELSE LET parsed == response.json.fields
         IN IF "isConcerning" \notin DOMAIN parsed THEN NotParsed
            ELSE IF parsed.isConcerning.type # "boolean" THEN NotParsed
            ELSE [isConcerning |-> parsed.isConcerning.value,
                  severity |-> orElse(parsed, "severity", "low"),
                  issueType |-> orElse(parsed, "issueType", "none"),
                  confidence |-> orElse(parsed, "confidence", 50)]

\* getDefaultResult
getDefaultResult ==
    [isConcerning |-> FALSE, severity |-> "low", issueType |-> "none",
     confidence |-> 0]

\* A bug to compare with: a failed analysis answers the defaults of the parser.
analyze_ParserDefaults(reply) ==
    IF reply.kind # "text" \/ parseAnalysisResponse(reply) = NotParsed
    THEN [isConcerning |-> FALSE, severity |-> "low", issueType |-> "none",
          confidence |-> 50]
    ELSE parseAnalysisResponse(reply)

\* analyze, for what the provider's call did
analyze(reply) ==
    IF reply.kind = "throws" THEN getDefaultResult
    ELSE IF reply.kind = "no text" THEN getDefaultResult
    ELSE IF parseAnalysisResponse(reply) = NotParsed THEN getDefaultResult
    ELSE parseAnalysisResponse(reply)

\* checkAndAnalyze from the analyzer's answer to the await of notify, or to
\* its return
Analyzed(id, reply) ==
    /\ handlers[id].pc = "analyzing"
    /\ LET h == handlers[id]
           result == analyze(reply)
           st == AggStep([signals |-> signalsRead(user_signals, h.signal,
                                                  h.message.guild, h.message.author,
                                                  h.trigger.targetUserId),
                          snapshots |-> daily_snapshots,
                          hist |-> hist, call |-> aggCall], now,
                         h.message.guild, h.message.author,
                         h.trigger.targetUserId, result)
       IN /\ user_signals' = st.signals
          /\ daily_snapshots' = st.snapshots
          /\ hist' = st.hist
          /\ aggCall' = st.call
          /\ handlers' = [handlers EXCEPT ![id] =
                LET recorded == [pc |-> "done",
                                 message |-> h.message, trigger |-> h.trigger,
                                 context |-> h.context, signal |-> h.signal,
                                 reply |-> reply, result |-> result]
                    checks == notifyChecks(alerts, now, h.message, result)
                IN IF ~result.isConcerning THEN recorded
                   ELSE IF checks = "send"
                   THEN [recorded EXCEPT !.pc = "notifying"]
                   ELSE [pc |-> "done",
                         message |-> h.message, trigger |-> h.trigger,
                         context |-> h.context, signal |-> h.signal,
                         reply |-> reply, result |-> result,
                         notification |-> checks]]
    /\ UNCHANGED <<db, now, messages, interactions, chain,
                   trendIn, trendOut, trigIn, trigOut, alerts, cleanup>>

\* A bug to compare with: the author is notified while the analysis of the
\* message is still awaited.
Notified_BeforeAnalysis(id, outcome) ==
    /\ handlers[id].pc = "analyzing"
    /\ LET h == handlers[id]
       IN alerts' = IF outcome = "delivered"
                    THEN insertAlert(alerts,
                                     [message_id |-> h.message.id,
                                      guild_id |-> h.message.guild,
                                      channel_id |-> h.message.channel,
                                      author_id |-> h.message.author,
                                      severity |-> "low"], now)
                    ELSE alerts
    /\ UNCHANGED <<db, now, user_signals, daily_snapshots, aggCall, hist, messages,
                   interactions, chain, trendIn, trendOut, trigIn, trigOut,
                   cleanup, handlers>>

\* Notifier.notify from the answer of fetchUser and sendDM to its return,
\* and the rest of checkAndAnalyze
Notified(id, outcome) ==
    /\ handlers[id].pc = "notifying"
    /\ LET h == handlers[id]
       IN /\ alerts' = IF outcome = "delivered"
                       THEN insertAlert(alerts,
                                        [message_id |-> h.message.id,
                                         guild_id |-> h.message.guild,
                                         channel_id |-> h.message.channel,
                                         author_id |-> h.message.author,
                                         severity |-> h.result.severity], now)
                       ELSE alerts
          /\ handlers' = [handlers EXCEPT ![id] =
                [pc |-> "done",
                 message |-> h.message, trigger |-> h.trigger,
                 context |-> h.context, signal |-> h.signal,
                 reply |-> h.reply, result |-> h.result,
                 notification |-> outcome]]
    /\ UNCHANGED <<db, now, user_signals, daily_snapshots, aggCall, hist, messages,
                   interactions, chain, trendIn, trendOut, trigIn, trigOut,
                   cleanup>>

InitBot ==
    /\ now = BotStart
    /\ NoSignals
    /\ NoMessages
    /\ NoHandlers
    /\ NoAlerts
    /\ NoTrend
    /\ NoTrigger

ReceiveBot == \E id \in 1..MaxBotMsgs : \E ev \in Events(id) : Receive(ev)
AnalyzedBot == \E id \in 1..MaxBotMsgs, v \in Verdicts : Analyzed(id, TextOf(v))
NotifiedBot == \E id \in 1..MaxBotMsgs, outcome \in DMOutcomes : Notified(id, outcome)
TickBot == now < BotStart + MaxBotTicks /\ AdvanceClock(1)

NextBot == ReceiveBot \/ AnalyzedBot \/ NotifiedBot \/ TickBot

SpecBot == InitBot /\ [][NextBot]_vars

\* the handlers that have received their message and not ignored it
Received == {id \in 1..MaxBotMsgs : handlers[id].pc # "idle"}

\* the stored messages, other than message id, of guild g that are by, or
\* mention, user a or user b
OthersBetween(id, g, a, b) ==
    {r \in messages :
        /\ r.id # id
        /\ r.guild_id = g
        /\ \/ r.author_id \in {a, b}
           \/ \E i \in DOMAIN JSONparseIds(r.mentions) :
                 JSONparseIds(r.mentions)[i] \in {a, b}}

\* message id is a generalizing remark of its author about the one other user
\* it mentions, in a watched channel of a guild, and nothing else is stored
\* between the two
LoneGeneralizing(id) ==
    LET ev == handlers[id].message
    IN /\ id \in Received
       /\ ~ev.bot /\ ev.guild # noGuild /\ ev.channel \notin excludedChannels
       /\ ev.content = GeneralizingText
       /\ Len(ev.mentions) = 1 /\ ev.mentions[1] # ev.author
       /\ ev.reference = nullId
       /\ OthersBetween(id, ev.guild, ev.author, ev.mentions[1]) = {}

\* C13: when A sends a message of the generalizing category that mentions B,
\* and no other message between A and B is stored, checkTrigger answers
\* shouldAnalyze with target B and the generalizing reason, and buildContext
\* returns a chain whose only context message is the trigger itself, with
\* timeSpanMinutes 0 and involvedUsers {A, B}.
C13_LoneGeneralizingMention ==
    \A id \in 1..MaxBotMsgs :
        LoneGeneralizing(id) =>
            LET h == handlers[id]
                ev == h.message
            IN /\ "trigger" \in DOMAIN h
               /\ h.trigger = Trigger("Generalizing/implicit bias pattern detected",
                                      ev.mentions[1])
               /\ Len(h.context.contextMessages) = 1
               /\ h.context.contextMessages[1].messageId = id
               /\ h.context.contextMessages[1] = h.context.triggerMessage
               /\ h.context.timeSpanMinutes = 0
               /\ Range(h.context.involvedUsers) = {ev.author, ev.mentions[1]}
               /\ Len(h.context.involvedUsers) = 2

\* such a message is being analyzed while an ignored message came before it
C13_Witness ==
    /\ LoneGeneralizing(2)
    /\ handlers[2].pc = "analyzing"
    /\ handlers[1].pc = "done"


(***************************************************************************)
(* SpecSig: the aggregator receives verdicts of every severity, with known *)
(* and unknown issue types, for a pair on two days.                        *)
(***************************************************************************)
MaxSigCalls == 5      \* verdicts recorded for the main pair
MaxSigDays == 1       \* days that pass

Verdict(isConcerning, severity, issueType, confidence) ==
    [isConcerning |-> isConcerning, severity |-> severity,
     issueType |-> issueType, confidence |-> confidence]

\* the confidence is given in hundredths
SigVerdicts ==
    {Verdict(TRUE, "low", "harassment", 40),
     Verdict(TRUE, "low", "none", 90),
     Verdict(TRUE, "medium", "labeling", 90),
     Verdict(TRUE, "high", "spam", 40),
     Verdict(TRUE, "high", "toString", 75),
     Verdict(FALSE, "medium", "harassment", 60)}

InitSig ==
    /\ InitAgg
    /\ NoTrend
    /\ NoTrigger

RecordSig ==
    \E v \in SigVerdicts :
        /\ hist[MainPair].calls < MaxSigCalls
        /\ RecordAnalysis(MainPair[1], MainPair[2], MainPair[3], v)

PassDaySig == now < MaxSigDays * MinutesPerDay /\ AdvanceClock(MinutesPerDay)

NextSig == RecordSig \/ PassDaySig

SpecSig == InitSig /\ [][NextSig]_vars

\* the pair for which the step records a verdict
Recorded(p) == hist'[p].calls = hist[p].calls + 1

StoredSeverities(p) ==
    LET sig == getSignal(user_signals, p[1], p[2], p[3])
    IN IF sig = NoSignal THEN [k \in Range(SeverityKeys) |-> 0]
       ELSE JSONparse(sig.severity_breakdown)

StoredIssues(p) ==
    LET sig == getSignal(user_signals, p[1], p[2], p[3])
    IN IF sig = NoSignal THEN [k \in Range(IssueKeys) |-> 0]
       ELSE JSONparse(sig.issue_breakdown)

StoredConfidence(p) ==
    LET sig == getSignal(user_signals, p[1], p[2], p[3])
    IN IF sig = NoSignal THEN Frac(0, 1) ELSE sig.avg_confidence

\* C14: for every pair and each severity low, medium and high, the stored
\* severity breakdown counts the concerning verdicts recorded with that
\* severity; after five concerning verdicts with severities low, low, medium,
\* high, high the breakdown is {low: 2, medium: 1, high: 2} and the concerning
\* count is 5.
C14_SeverityBreakdownCounts ==
    \A p \in Pairs :
        /\ \A k \in Range(SeverityKeys) :
              StoredSeverities(p)[k] = hist[p].severities[k]
        /\ (/\ hist[p].calls = 5 /\ hist[p].concerning = 5
            /\ hist[p].severities = [low |-> 2, medium |-> 1, high |-> 2])
           => /\ StoredSeverities(p) = [low |-> 2, medium |-> 1, high |-> 2]
              /\ StoredCount(p) = 5

\* five concerning verdicts with severities low, low, medium, high, high
C14_Witness ==
    /\ hist[MainPair].calls = 5 /\ hist[MainPair].concerning = 5
    /\ hist[MainPair].severities = [low |-> 2, medium |-> 1, high |-> 2]
    /\ now = MinutesPerDay

\* C15: a concerning verdict whose issue type is none of the seven known
\* kinds adds one to the total and to the concerning count and leaves the
\* stored issue breakdown as it was, keys included; a concerning verdict of a
\* known kind adds one to that kind's bucket and leaves the others.
C15_UnknownIssueTypeCountsNoBucket ==
    [][\A p \in Pairs :
          (Recorded(p) /\ aggCall'.result.isConcerning) =>
              /\ StoredTotal(p)' = StoredTotal(p) + 1
              /\ StoredCount(p)' = StoredCount(p) + 1
              /\ IF aggCall'.result.issueType \in Range(IssueKeys)
                 THEN StoredIssues(p)' =
                        [StoredIssues(p) EXCEPT ![aggCall'.result.issueType] = @ + 1]
                 ELSE StoredIssues(p)' = StoredIssues(p)]_vars

SnapshotsOn(table, p, clock) ==
    {r \in table : /\ r.guild_id = p[1]
                   /\ r.source_user_id = p[2]
                   /\ r.target_user_id = p[3]
                   /\ r.date = today(clock)}

MaxDirCalls == 2      \* verdicts recorded for each pair

DirPairs == {MainPair, OtherPair, <<"g2", U1, U2>>}

RecordDir ==
    \E p \in DirPairs, v \in Verdicts :
        /\ hist[p].calls < MaxDirCalls
        /\ RecordAnalysis(p[1], p[2], p[3], v)

SpecDir == InitSig /\ [][RecordDir]_vars

\* the rows of a table that are not keyed by pair p
RowsNotOf(table, p) ==
    {r \in table : ~(/\ r.guild_id = p[1]
                     /\ r.source_user_id = p[2]
                     /\ r.target_user_id = p[3])}

\* C18: recording a verdict for (G, A, B) writes the signal and the snapshot
\* keyed (G, A, B) and leaves the signals and snapshots of (G, B, A), of every
\* other pair and of every other guild as they were.
C18_SignalsAreDirectional ==
    [][\A p \in Pairs :
          Recorded(p) =>
              /\ RowsNotOf(user_signals', p) = RowsNotOf(user_signals, p)
              /\ RowsNotOf(daily_snapshots', p) = RowsNotOf(daily_snapshots, p)
              /\ getSignal(user_signals', p[1], p[2], p[3]) # NoSignal
              /\ SnapshotsOn(daily_snapshots', p, now) # {}]_vars

\* the pair, its reverse and the pair of the other guild have signals that
\* differ, and the last verdict was recorded for the pair
C18_Witness ==
    /\ \A p \in DirPairs : StoredTotal(p) > 0
    /\ StoredCount(MainPair) = 2
    /\ StoredCount(OtherPair) = 0
    /\ StoredTotal(<<"g2", U1, U2>>) = 1
    /\ aggCall.called /\ aggCall.sourceUserId = U1 /\ aggCall.guildId = "g1"


(***************************************************************************)
(* Claims about handlers in flight (SpecBot)                               *)
(***************************************************************************)
\* the handlers of pair p whose verdict has been recorded
RecordedFor(p) ==
    {id \in 1..MaxBotMsgs :
        /\ "result" \in DOMAIN handlers[id]
        /\ <<handlers[id].message.guild, handlers[id].message.author,
             handlers[id].trigger.targetUserId>> = p}

\* C19: however the handlers of a pair interleave, the pair's total is the
\* number of its handlers whose verdict has been recorded and its concerning
\* count is the number of those whose verdict is concerning.
C19_NoLostUpdate ==
    \A p \in Pairs :
        /\ StoredTotal(p) = Cardinality(RecordedFor(p))
        /\ StoredCount(p) =
              Cardinality({id \in RecordedFor(p) : handlers[id].result.isConcerning})

\* two handlers of a pair were suspended on the analyzer at once (neither
\* saw a signal before its await) and both verdicts are recorded, the later
\* message's first
C19_Witness ==
    /\ RecordedFor(MainPair) = {1, 2}
    /\ handlers[1].signal = NoSignal /\ handlers[2].signal = NoSignal
    /\ aggCall.ret.signal.total_interactions = 2
    /\ aggCall.result = handlers[1].result
    /\ handlers[1].result # handlers[2].result

\* the handlers that are between the receipt of their message and the
\* recording of its verdict
InFlight == {id \in 1..MaxBotMsgs : handlers[id].pc = "analyzing"}

\* C20 as stated: a message is received only when every earlier message has
\* been processed up to and including the aggregation of its verdict.
C20_OneMessageAtATime ==
    \A i, j \in 1..MaxBotMsgs :
        (i < j /\ handlers[j].pc # "idle") => i \notin InFlight

\* the stored messages up to message id that qualify for the context of a and b
QualifyingUpTo(id, g, a, b) ==
    {r \in messages :
        /\ r.id <= id
        /\ r.guild_id = g
        /\ \/ r.author_id \in {a, b}
           \/ \E i \in DOMAIN JSONparseIds(r.mentions) :
                 JSONparseIds(r.mentions)[i] \in {a, b}}

\* C20, amended: a message is stored, classified and has its context built
\* before the processing of the next message starts (its context holds the
\* qualifying messages received up to it, itself included, and none received
\* after it); only the wait for the analyzer, and what follows it, overlaps
\* with the processing of later messages.
C20_StepsBeforeAnalysisDoNotInterleave ==
    \A j \in 1..MaxBotMsgs :
        LET h == handlers[j]
        IN (h.pc # "idle" /\ h # Finished(h.message, "ignored")) =>
            /\ \A i \in 1..(j - 1) : handlers[i].pc # "idle"
            /\ \E r \in messages : r.id = j
            /\ h # Finished(h.message, "no context")
            /\ "context" \in DOMAIN h =>
                  {h.context.contextMessages[k].messageId :
                        k \in DOMAIN h.context.contextMessages}
                    = {r.id : r \in QualifyingUpTo(j, h.message.guild, h.message.author,
                                                   h.trigger.targetUserId)}

\* the second message was received, and its context built from both messages,
\* while the first was waiting for the analyzer
C20_Witness ==
    /\ InFlight = {1, 2}
    /\ Len(handlers[2].context.contextMessages) = 2
    /\ Len(handlers[1].context.contextMessages) = 1

(***************************************************************************)
(* DatabaseManager.cleanupOldMessages (database repository) and the        *)
(* cleanup job of MimamoriBot.  SpecSweep: messages are stored as they     *)
(* arrive, the job sweeps with the configured retention, contexts are      *)
(* built.  The configuration reads MESSAGE_RETENTION_HOURS and             *)
(* CONTEXT_WINDOW_HOURS with getEnvNumber, which accepts any integer.      *)
(***************************************************************************)
MaxRetention == 3
MaxSweepTicks == 4
MaxSweepMsgs == 2

\* MessageRepository.deleteOlderThan: the table after
\* DELETE FROM messages WHERE timestamp < ?, and result.changes
deleteOlderThan(table, timestamp) ==
    [messages |-> {r \in table : ~(r.timestamp < timestamp)},
     changes |-> Cardinality({r \in table : r.timestamp < timestamp})]

\* DatabaseManager.cleanupOldMessages at time clock; times in minutes
cleanupOldMessages(table, clock, retentionHours) ==
    LET cutoffTimestamp == clock - retentionHours * MinutesPerHour
        deleted == deleteOlderThan(table, cutoffTimestamp)
    IN [messages |-> deleted.messages,
        cutoffTimestamp |-> cutoffTimestamp,
        deleted |-> deleted.changes]

\* the callback of startCleanupJob
Cleanup ==
    LET swept == cleanupOldMessages(messages, now, cleanup.messageRetentionHours)
    IN /\ messages' = swept.messages
       /\ cleanup' = [messageRetentionHours |-> cleanup.messageRetentionHours,
                      ran |-> TRUE,
                      cutoffTimestamp |-> swept.cutoffTimestamp,
                      deleted |-> swept.deleted]
       /\ chain' = NoCall
       /\ UNCHANGED <<db, alerts, interactions, handlers, now, user_signals,
                      daily_snapshots, aggCall, hist, trendIn, trendOut,
                      trigIn, trigOut>>

SweepStart == MaxRetention * MinutesPerHour

InitSweep ==
    /\ now = SweepStart
    /\ NoSignals
    /\ NoMessages
    /\ NoHandlers
    /\ alerts = {}
    /\ db = Started
    /\ \E retentionHours \in 1..MaxRetention :
          cleanup = [messageRetentionHours |-> retentionHours, ran |-> FALSE]
    /\ NoTrend
    /\ NoTrigger

InsertSweep ==
    \E id \in 1..MaxSweepMsgs, u \in {U1, U2} :
        \E ms \in {<<>>, <<Other(u)>>} :
            Insert(StoredMessage(id, <<"g1", "c1">>, u, now, ms))

BuildSweep ==
    \E id \in 1..MaxSweepMsgs, p \in {<<U1, U2>>, <<U2, U1>>} :
        BuildContext("g1", id, p[1], p[2])

\* an hour passes
TickSweep ==
    /\ now < SweepStart + MaxSweepTicks * MinutesPerHour
    /\ AdvanceClock(MinutesPerHour)

NextSweep == InsertSweep \/ BuildSweep \/ TickSweep \/ Cleanup

SpecSweep == InitSweep /\ [][NextSweep]_vars

\* the step is a run of the cleanup job that found something to do or ran
\* for the first time at this cutoff
Swept == cleanup' # cleanup

\* the stored messages inside the context window that is live at time clock
InLiveWindow(table, clock) == {r \in table : r.timestamp >= clock - contextWindow}

\* C21: a sweep deletes exactly the messages with timestamp strictly older
\* than now - retentionHours; for every retention the configuration accepts
\* it deletes no message inside a live context window (timestamp >= now -
\* contextWindowHours), so that a build after the sweep returns what a build
\* before it would have returned.
C21_SweepSparesLiveWindow ==
    [][Swept =>
        /\ messages \ messages' =
              {r \in messages :
                  r.timestamp < now - cleanup.messageRetentionHours * MinutesPerHour}
        /\ messages' \subseteq messages
        /\ InLiveWindow(messages, now) \subseteq messages'
        /\ \A r \in InLiveWindow(messages, now), p \in {<<U1, U2>>, <<U2, U1>>} :
              buildContext(messages', now, "g1", r.id, p[1], p[2])
                = buildContext(messages, now, "g1", r.id, p[1], p[2])]_vars

\* the same for the retentions that are not shorter than the context window
SweepSparesLiveWindowUnderLongRetention ==
    [][(Swept /\ cleanup.messageRetentionHours >= ContextWindowHours) =>
        /\ messages \ messages' =
              {r \in messages :
                  r.timestamp < now - cleanup.messageRetentionHours * MinutesPerHour}
        /\ InLiveWindow(messages, now) \subseteq messages'
        /\ \A r \in InLiveWindow(messages, now), p \in {<<U1, U2>>, <<U2, U1>>} :
              buildContext(messages', now, "g1", r.id, p[1], p[2])
                = buildContext(messages, now, "g1", r.id, p[1], p[2])]_vars

\* a sweep with a retention of at least the window has deleted a message
LongRetentionSweepDeleted ==
    /\ cleanup.ran
    /\ cleanup.messageRetentionHours >= ContextWindowHours
    /\ cleanup.deleted > 0

(***************************************************************************)
(* SpecStore: MessageRepository.insert called with any message, on any     *)
(* store.  chain keeps the last call: the message given and the row that   *)
(* getById found for its id before the call.                               *)
(***************************************************************************)
MaxStoreMsgs == 2

InsertStore(message) ==
    /\ messages' = insert(messages, message)
    /\ chain' = [called |-> FALSE,
                 insert |-> message,
                 before |-> getById(messages, message.id)]
    /\ UNCHANGED <<db, alerts, cleanup, interactions, handlers, now, user_signals,
                   daily_snapshots, aggCall, hist, trendIn, trendOut, trigIn,
                   trigOut>>

StoreInputs ==
    {StoredMessage(id, place, u, ts, ms) :
        id \in 1..MaxStoreMsgs, place \in {<<"g1", "c1">>, <<"g2", "c3">>},
        u \in {U1, U2}, ts \in Stamps, ms \in {<<>>, <<U12>>}}

NextStore == \E message \in StoreInputs : InsertStore(message)

SpecStore == InitCtx /\ [][NextStore]_vars

Inserted == "insert" \in DOMAIN chain

MaxPairCalls == 3

NoInteraction == [guild_id |-> noGuild]       \* get returned undefined

\* InteractionRepository.get
get(table, guildId, userAId, userBId) ==
    LET pair == normalize(userAId, userBId)
        found == {r \in table : /\ r.guild_id = guildId
                                 /\ r.user_a_id = pair[1]
                                 /\ r.user_b_id = pair[2]}
    IN IF found = {} THEN NoInteraction ELSE CHOOSE r \in found : TRUE

PairUsers == {U1, U2, U12}
PairInputs ==
    {<<"g1", a, b>> : a, b \in PairUsers} \cup {<<"g2", a, b>> : a, b \in {U1, U2}}
PairCalls == {c \in PairInputs : c[2] # c[3]}
PairKey(guildId, userAId, userBId) == <<guildId, {userAId, userBId}>>
PairKeys == {PairKey(c[1], c[2], c[3]) : c \in PairCalls}

InitPair ==
    /\ now = 0
    /\ user_signals = {}
    /\ daily_snapshots = {}
    /\ aggCall = [called |-> FALSE]
    /\ hist = [k \in PairKeys |-> [calls |-> 0, reversed |-> 0]]
    /\ NoMessages
    /\ NoHandlers
    /\ NoAlerts
    /\ NoTrend
    /\ NoTrigger

RecordPair ==
    \E c \in PairCalls :
        LET k == PairKey(c[1], c[2], c[3])
        IN /\ hist[k].calls < MaxPairCalls
           /\ interactions' = recordInteraction(interactions, c[1], c[2], c[3],
                                                now, <<<<"c1">>>>)
           /\ hist' = [hist EXCEPT ![k] =
                          [calls |-> @.calls + 1,
                           reversed |-> @.reversed
                               + (IF stringLess(c[3], c[2]) THEN 1 ELSE 0)]]
           /\ UNCHANGED <<db, alerts, cleanup, handlers, now, user_signals,
                          daily_snapshots, aggCall, trendIn, trendOut, trigIn,
                          trigOut, messages, chain>>

SpecPair == InitPair /\ [][RecordPair]_vars

\* C23: an interaction is keyed by the guild and the unordered pair: get
\* answers the same for (A, B) and (B, A), there is at most one record per
\* guild and set of two users, and after n recordings of the pair, in any
\* mix of the two orders, that record's interaction_count is n (no record
\* when n = 0).
C23_InteractionOfUnorderedPair ==
    \A c \in PairCalls :
        LET found == get(interactions, c[1], c[2], c[3])
            n == hist[PairKey(c[1], c[2], c[3])].calls
        IN /\ found = get(interactions, c[1], c[3], c[2])
           /\ Cardinality({r \in interactions :
                             /\ r.guild_id = c[1]
                             /\ {r.user_a_id, r.user_b_id} = {c[2], c[3]}}) <= 1
           /\ (n = 0 => found = NoInteraction)
           /\ (n > 0 => /\ found # NoInteraction
                        /\ found.interaction_count = n)

\* the pair of users 2 and 12 of g1 was recorded three times, in both orders
C23_Witness ==
    LET h == hist[PairKey("g1", U2, U12)]
    IN /\ h.calls = MaxPairCalls
       /\ h.reversed \in 1..(MaxPairCalls - 1)
       /\ get(interactions, "g1", U2, U12).interaction_count = MaxPairCalls

\* the users, other than its author, that the stored message of event ev
\* mentions
MentionedBy(ev) ==
    {ev.mentions[i] : i \in DOMAIN ev.mentions} \ {ev.author}

\* the author of the stored message that event ev replies to, when that is
\* another user
RepliedToBy(ev) ==
    {replyAuthor(messages, ev)} \ {null, ev.author}

\* the events of guild messages that were stored
Ingested ==
    {handlers[id].message : id \in {i \in Received : \E r \in messages : r.id = i}}

\* C24: after the ingestion of a guild message from A that mentions B, or
\* that replies to a message written by B, with A # B, an interaction of the
\* pair {A, B} is on record.
C24_MentionOrReplyRecordsInteraction ==
    \A ev \in Ingested :
        \A b \in MentionedBy(ev) \cup RepliedToBy(ev) :
            get(interactions, ev.guild, ev.author, b) # NoInteraction

\* the same for the mentions alone
MentionRecordsInteraction ==
    \A ev \in Ingested :
        \A b \in MentionedBy(ev) :
            get(interactions, ev.guild, ev.author, b) # NoInteraction

(***************************************************************************)
(* SpecPipe: the whole pipeline of MimamoriBot.  Two users write to each   *)
(* other in one guild: a generalizing message that mentions the other, a   *)
(* plain message, and a message whose Discord timestamp is older than the  *)
(* context window at the host's clock.  The provider throws, answers       *)
(* without text or answers a text, parsable or not; the DM is delivered    *)
(* or not; a cooldown period passes.                                       *)
(***************************************************************************)
MaxPipeTicks == 1

PipeEvents(id) ==
    {Event(id, FALSE, "g1", "c1", u, GeneralizingText, <<Other(u)>>, nullId) :
        u \in Users}
    \cup {Event(id, FALSE, "g1", "c1", U1, PlainText, <<>>, nullId),
          [Event(id, FALSE, "g1", "c2", U1, GeneralizingText, <<U2>>, nullId)
              EXCEPT !.createdTimestamp = now - contextWindow - 1]}

PipeReplies ==
    {ProviderThrows,
     NoTextContent,
     Text(FALSE, InvalidJSON),
     Text(TRUE, Object([severity |-> jsString("high"),
                        confidence |-> jsNumber(90)])),
     Text(FALSE, Object([isConcerning |-> jsString("true"),
                         severity |-> jsString("high"),
                         confidence |-> jsNumber(90)])),
     Text(FALSE, Object([isConcerning |-> jsBoolean(TRUE)])),
     TextOf(Concerning),
     TextOf(NotConcerning)}

ReceivePipe == \E id \in 1..MaxBotMsgs : \E ev \in PipeEvents(id) : Receive(ev)
AnalyzedPipe == \E id \in 1..MaxBotMsgs, reply \in PipeReplies : Analyzed(id, reply)
TickPipe ==
    /\ now < BotStart + MaxPipeTicks * NotificationCooldownMinutes
    /\ AdvanceClock(NotificationCooldownMinutes)

NextPipe == ReceivePipe \/ AnalyzedPipe \/ NotifiedBot \/ TickPipe

SpecPipe == InitBot /\ [][NextPipe]_vars

\* the provider's call failed, answered no text, or answered a text that is
\* not a JSON object with a boolean isConcerning
Failed(reply) ==
    \/ reply.kind \in {"throws", "no text"}
    \/ /\ reply.kind = "text"
       /\ \/ reply.json.syntax # "object"
          \/ "isConcerning" \notin DOMAIN reply.json.fields
          \/ reply.json.fields.isConcerning.type # "boolean"

\* the handlers whose analysis has answered
Answered == {id \in 1..MaxBotMsgs : "reply" \in DOMAIN handlers[id]}

\* C25: when the provider throws, returns no text, or returns text that
\* cannot be parsed into a verdict, analyze answers its caller with a verdict
\* that is not concerning and has confidence 0; the handler goes on (the
\* verdict is aggregated, as not concerning) and ends without a notification.
C25_AnalyzerFailsToNotConcerning ==
    \A id \in Answered :
        LET h == handlers[id]
            p == <<h.message.guild, h.message.author, h.trigger.targetUserId>>
        IN Failed(h.reply) =>
            /\ ~h.result.isConcerning
            /\ h.result.confidence = 0
            /\ h.pc = "done"
            /\ "notification" \notin DOMAIN h
            /\ getByMessage(alerts, id) = {}
            /\ hist[p].calls - hist[p].concerning
                 >= Cardinality({i \in RecordedFor(p) : Failed(handlers[i].reply)})

\* the provider threw for message 1 and answered message 2 with an object
\* that has no boolean isConcerning; both handlers have ended
C25_Witness ==
    /\ Answered = {1, 2}
    /\ handlers[1].reply = ProviderThrows
    /\ handlers[2].reply.kind = "text"
    /\ Failed(handlers[2].reply)
    /\ handlers[2].reply.json.syntax = "object"
    /\ handlers[1].pc = "done" /\ handlers[2].pc = "done"

\* the handlers that were given, or are waiting for, an analysis
Analyzing == InFlight \cup Answered

\* C26: the analyzer is invoked for a message only after checkTrigger
\* answered shouldAnalyze with a target and buildContext returned a chain for
\* that message; a handler whose buildContext returned none has no analysis,
\* no aggregation and no notification; every aggregation and every
\* notification is that of a message whose analysis has answered (and every
\* notification that of a concerning verdict).
C26_AnalysisOnlyAfterTriggerAndContext ==
    /\ \A id \in Analyzing :
          LET h == handlers[id]
          IN /\ h.trigger.shouldAnalyze
             /\ h.trigger.targetUserId # undefined
             /\ h.trigger = checkTrigger(h.message.content, h.message.author,
                                         h.message.mentions,
                                         replyAuthor(messages, h.message))
             /\ h.context # NoChain
             /\ h.context.triggerMessage.messageId = id
    /\ \A id \in 1..MaxBotMsgs :
          handlers[id].pc = "notifying" \/ "notification" \in DOMAIN handlers[id]
              => id \in Answered /\ handlers[id].result.isConcerning
    /\ \A a \in alerts :
          /\ a.message_id \in Answered
          /\ handlers[a.message_id].result.isConcerning
    /\ \A p \in Pairs : hist[p].calls = Cardinality(RecordedFor(p) \cap Answered)
    /\ \A id \in 1..MaxBotMsgs :
          (handlers[id].pc # "idle"
             /\ handlers[id] = Finished(handlers[id].message, "no context"))
              => /\ id \notin Analyzing
                 /\ getByMessage(alerts, id) = {}

\* buildContext returned none for message 1, which ended there; message 2
\* was analysed, aggregated and its author notified
C26_Witness ==
    /\ handlers[1].pc = "done"
    /\ handlers[1] = Finished(handlers[1].message, "no context")
    /\ 2 \in Answered
    /\ getByMessage(alerts, 2) # {}
    /\ \A p \in Pairs : hist[p].calls = (IF p = OtherPair THEN 1 ELSE 0)

(***************************************************************************)
(* SpecDisk: the bot opens a database file that it finds on disk.  The     *)
(* mentions of a stored message and the breakdowns of a stored signal are  *)
(* TEXT columns: the file may hold texts this program did not write, such  *)
(* as a text cut short.  Contexts are built and a verdict is recorded.     *)
(***************************************************************************)
MaxDiskCalls == 1

SyntaxError == [threw |-> "SyntaxError"]      \* what JSON.parse throws

\* JSON.parse accepts the text of a mention list
parsesIds(text) == JSONstringifyIds(JSONparseIds(text)) = text

\* the text of a breakdown, cut after the colon of its first key
Cut == -2
cutShort(text) == <<<<text[1][1], Cut>>>>

\* JSON.parse accepts the text of a breakdown
parsesBreakdown(text) == \A i \in DOMAIN text : text[i][2] # Cut

\* buildContext: what it returns, or the exception that leaves it
buildContextOrThrow(table, clock, guildId, triggerMessageId, authorId, targetUserId) ==
    LET triggerMessage == getById(table, triggerMessageId)
    IN IF triggerMessage.id = nullId THEN {NoChain}
       ELSE {IF \E i \in DOMAIN f : ~parsesIds(f[i].mentions) THEN SyntaxError
             ELSE IF Len(f) = 0 THEN NoChain
             ELSE IF ~parsesIds(triggerMessage.mentions) THEN SyntaxError
             ELSE buildContextFrom(table, [i \in DOMAIN f |-> toContextMessage(f[i])],
                                   triggerMessageId) :
               f \in orderedLimited(contextRows(table, guildId, clock - contextWindow,
                                                authorId, targetUserId),
                                    MaxContextMessages)}

\* the mention lists a file may hold: [], ["2"], the text ["2" and the empty
\* text
DiskMentions ==
    {JSONstringifyIds(<<>>), JSONstringifyIds(<<U2>>),
     SubSeq(JSONstringifyIds(<<U2>>), 1, Len(JSONstringifyIds(<<U2>>)) - 1), <<>>}

DiskRows ==
    {[StoredMessage(1, <<"g1", "c1">>, U1, contextWindow, <<>>)
         EXCEPT !.mentions = text] : text \in DiskMentions}
    \cup {[StoredMessage(2, <<"g1", "c2">>, U2, contextWindow, <<>>)
              EXCEPT !.mentions = text] : text \in DiskMentions}

DiskStores == {rows \in SUBSET DiskRows : \A r, q \in rows : r.id = q.id => r = q}

\* the signal of the main pair after one concerning verdict
DiskSignal ==
    CHOOSE r \in recordAnalysis({}, {}, 0, MainPair[1], MainPair[2], MainPair[3],
                                Concerning).signals : TRUE

DiskSignals ==
    {{}, {DiskSignal},
     {[DiskSignal EXCEPT !.issue_breakdown = cutShort(@)]},
     {[DiskSignal EXCEPT !.severity_breakdown = cutShort(@)]}}

InitDisk ==
    /\ now = contextWindow
    /\ messages \in DiskStores
    /\ chain = NoCall
    /\ user_signals \in DiskSignals
    /\ daily_snapshots = {}
    /\ aggCall = [called |-> FALSE]
    /\ hist = [p \in Pairs |-> NoHistory]
    /\ NoHandlers
    /\ NoAlerts
    /\ NoTrend
    /\ NoTrigger

BuildDisk ==
    \E id \in 1..2, p \in {<<U1, U2>>, <<U2, U1>>} :
        /\ \E c \in buildContextOrThrow(messages, now, "g1", id, p[1], p[2]) :
              chain' = [called |-> TRUE,
                        guildId |-> "g1",
                        triggerMessageId |-> id,
                        authorId |-> p[1],
                        targetUserId |-> p[2],
                        at |-> now,
                        result |-> c]
        /\ UNCHANGED <<db, alerts, cleanup, interactions, handlers, now, user_signals,
                       daily_snapshots, aggCall, hist, trendIn, trendOut, trigIn,
                       trigOut, messages>>

\* recordAnalysis for the main pair: JSON.parse of the stored breakdowns
\* throws before anything is written, or the call runs to its end
RecordDisk ==
    \E v \in Verdicts :
        LET existingSignal == getSignal(user_signals, MainPair[1], MainPair[2],
                                        MainPair[3])
        IN /\ hist[MainPair].calls < MaxDiskCalls
           /\ ~("threw" \in DOMAIN aggCall)
           /\ IF /\ existingSignal # NoSignal
                 /\ \/ ~parsesBreakdown(existingSignal.issue_breakdown)
                    \/ ~parsesBreakdown(existingSignal.severity_breakdown)
              THEN /\ aggCall' = [called |-> TRUE, threw |-> "SyntaxError"]
                   /\ UNCHANGED <<db, alerts, cleanup, interactions, handlers, now,
                                  user_signals, daily_snapshots, hist, trendIn,
                                  trendOut, trigIn, trigOut, messages, chain>>
              ELSE RecordAnalysis(MainPair[1], MainPair[2], MainPair[3], v)

NextDisk == BuildDisk \/ RecordDisk

SpecDisk == InitDisk /\ [][NextDisk]_vars

\* the stored messages whose mention list JSON.parse rejects
Unparsable == {r \in messages : ~parsesIds(r.mentions)}

ParsableNeverThrows ==
    /\ (chain.called /\ Unparsable = {}) => chain.result # SyntaxError
    /\ (\A r \in user_signals : /\ parsesBreakdown(r.issue_breakdown)
                                /\ parsesBreakdown(r.severity_breakdown))
          => (aggCall.called => "threw" \notin DOMAIN aggCall)

\* the time, in minutes, at which alert a was recorded
deliveredAt(a) == a.alerted_at \div SecondsPerMinute

\* the step is the one in which notify is called for message id (the verdict
\* of the message is concerning)
NotifyCalled(id) ==
    /\ handlers[id].pc = "analyzing"
    /\ "result" \in DOMAIN handlers'[id]
    /\ handlers'[id].result.isConcerning

\* C28: hasRecentAlert(author, T) is true exactly when an alert of that
\* author was recorded at or after T; and once a notification was delivered
\* to an author at time t, every notify for that author before t +
\* cooldownMinutes is skipped with the reason cooldown.
C28_CooldownAfterDelivery ==
    /\ [](\A author \in Users, T \in {unixepoch(BotStart), unixepoch(now) + 1} :
            hasRecentAlert(alerts, author, T)
              <=> \E a \in alerts : a.author_id = author /\ a.alerted_at >= T)
    /\ [][\A id \in 1..MaxBotMsgs :
            (/\ NotifyCalled(id)
             /\ \E a \in alerts :
                   /\ a.author_id = handlers[id].message.author
                   /\ now < deliveredAt(a) + NotificationCooldownMinutes)
              => /\ "notification" \in DOMAIN handlers'[id]
                 /\ handlers'[id].notification = "cooldown"]_vars

(***************************************************************************)
(* SpecUpsert: SignalRepository.upsertSignal called with any signal of a   *)
(* pair or of the opposite pair, as time passes.  aggCall keeps the signal *)
(* of the last call.                                                       *)
(***************************************************************************)
MaxUpsertTicks == 2

\* a signal of pair p first and last seen at time clock
SignalOf(p, clock, total, count, issue, severity, confidence, trend) ==
    [guild_id |-> p[1],
     source_user_id |-> p[2],
     target_user_id |-> p[3],
     total_interactions |-> total,
     concerning_count |-> count,
     issue_breakdown |->
        JSONstringify([k \in Range(IssueKeys) |-> IF k = issue THEN count ELSE 0],
                      IssueKeys),
     severity_breakdown |->
        JSONstringify([k \in Range(SeverityKeys) |-> IF k = severity THEN count ELSE 0],
                      SeverityKeys),
     avg_confidence |-> meanConfidence(confidence * count, count),
     trend |-> trend,
     first_seen |-> clock,
     last_seen |-> clock,
     last_aggregated |-> clock]

UpsertInputs ==
    UNION {{SignalOf(p, now, 1, 0, "harassment", "low", 0, 0),
            SignalOf(p, now, 2, 1, "harassment", "high", 80, 1),
            SignalOf(p, now, 4, 3, "labeling", "medium", 60, -1)} :
               p \in {MainPair, OtherPair}}

UpsertSig ==
    \E signal \in UpsertInputs :
        /\ user_signals' = upsertSignal(user_signals, signal)
        /\ aggCall' = [called |-> FALSE, upsert |-> signal]
        /\ UNCHANGED <<db, alerts, cleanup, interactions, handlers, now,
                       daily_snapshots, hist, trendIn, trendOut, trigIn, trigOut,
                       messages, chain>>

TickUpsert == now < MaxUpsertTicks /\ AdvanceClock(1)

NextUpsert == UpsertSig \/ TickUpsert

SpecUpsert == InitSig /\ [][NextUpsert]_vars

Upserted == "upsert" \in DOMAIN aggCall

\* C29: getSignal after upsertSignal(s) returns a signal with the totals, the
\* breakdowns and the trend of s, also when a signal of the key was stored
\* before (the latest values are read back), and the table holds at most one
\* row per (guild, source, target).
C29_UpsertThenGetRoundTrip ==
    /\ \A r, q \in user_signals :
          SameSignalKey(r, q.guild_id, q.source_user_id, q.target_user_id) => r = q
    /\ Upserted =>
          LET s == aggCall.upsert
              got == getSignal(user_signals, s.guild_id, s.source_user_id,
                               s.target_user_id)
          IN /\ got # NoSignal
             /\ got.total_interactions = s.total_interactions
             /\ got.concerning_count = s.concerning_count
             /\ JSONparse(got.issue_breakdown) = JSONparse(s.issue_breakdown)
             /\ JSONparse(got.severity_breakdown) = JSONparse(s.severity_breakdown)
             /\ got.avg_confidence = s.avg_confidence
             /\ got.trend = s.trend
             /\ got.last_seen = s.last_seen

\* the last upsert replaced the values of a signal first seen earlier, beside
\* a signal of the opposite pair
C29_Witness ==
    /\ Upserted
    /\ aggCall.upsert.source_user_id = MainPair[2]
    /\ aggCall.upsert.trend = 1
    /\ getSignal(user_signals, MainPair[1], MainPair[2], MainPair[3]).first_seen
         < aggCall.upsert.last_seen
    /\ Cardinality(user_signals) = 2

(***************************************************************************)
(* SpecQuery: SignalAggregator.getConcerningSignalsForUser on any table of *)
(* signals.  The rows are given with their counts and trend (the query     *)
(* reads no other table): signals of four pairs of one guild, one of them  *)
(* from a user to themself (the target of an untargeted-capable category   *)
(* without counterpart is the author), and of a pair of another guild.     *)
(* aggCall keeps the last call and the list it returned.                   *)
(***************************************************************************)
SelfPair == <<"g1", U1, U1>>

QueryPairs ==
    {MainPair, OtherPair, SelfPair, <<"g1", U1, U12>>, <<"g2", U1, U2>>}

QueryInputs ==
    UNION {{SignalOf(p, now, 2, 2, "harassment", "low", 50, 0),
            SignalOf(p, now, 3, 3, "harassment", "high", 80, 0),
            SignalOf(p, now, 2, 1, "labeling", "medium", 60, 1),
            SignalOf(p, now, 5, 4, "labeling", "medium", 60, -1)} :
               p \in QueryPairs}

\* every list ORDER BY concerning_count DESC may give for the rows
OrderByConcerningDesc(rows) ==
    {f \in Orderings(rows) :
        \A i, j \in DOMAIN f :
            i < j => f[i].concerning_count >= f[j].concerning_count}

\* SignalRepository.getSignalsBySource
getSignalsBySource(table, guildId, sourceUserId) ==
    OrderByConcerningDesc({r \in table : /\ r.guild_id = guildId
                                         /\ r.source_user_id = sourceUserId})

\* SignalRepository.getSignalsByTarget
getSignalsByTarget(table, guildId, targetUserId) ==
    OrderByConcerningDesc({r \in table : /\ r.guild_id = guildId
                                         /\ r.target_user_id = targetUserId})

\* A bug to compare with: a worsening trend alone does not count.
isConcerningSignal_CountOnly(s) == s.concerning_count >= 3

\* (s) => s.concerning_count >= 3 || s.trend === 1
isConcerningSignal(s) == s.concerning_count >= 3 \/ s.trend = 1

\* getConcerningSignalsForUser: the lists it may return
getConcerningSignalsForUser(table, guildId, userId) ==
    {SelectSeq(asSource \o asTarget, isConcerningSignal) :
        asSource \in getSignalsBySource(table, guildId, userId),
        asTarget \in getSignalsByTarget(table, guildId, userId)}

UpsertQuery ==
    \E signal \in QueryInputs :
        /\ user_signals' = upsertSignal(user_signals, signal)
        /\ aggCall' = [called |-> FALSE, upsert |-> signal]
        /\ UNCHANGED <<db, alerts, cleanup, interactions, handlers, now,
                       daily_snapshots, hist, trendIn, trendOut, trigIn, trigOut,
                       messages, chain>>

QueryUser ==
    \E guildId \in Guilds, userId \in Users :
        \E list \in getConcerningSignalsForUser(user_signals, guildId, userId) :
            /\ aggCall' = [called |-> FALSE, guildId |-> guildId,
                           userId |-> userId, returned |-> list]
            /\ UNCHANGED <<db, alerts, cleanup, interactions, handlers, now,
                           user_signals, daily_snapshots, hist, trendIn, trendOut,
                           trigIn, trigOut, messages, chain>>

NextQuery == UpsertQuery \/ QueryUser

SpecQuery == InitSig /\ [][NextQuery]_vars

Queried == "returned" \in DOMAIN aggCall

\* C30: the per-user query for guild G and user u returns exactly the
\* signals of G in which u is the source or the target and whose concerning
\* count is at least 3 or whose trend is +1: each of them, and no other.
C30_ConcerningSignalsOfUser ==
    Queried =>
        Range(aggCall.returned) =
            {r \in user_signals :
                /\ r.guild_id = aggCall.guildId
                /\ aggCall.userId \in {r.source_user_id, r.target_user_id}
                /\ (r.concerning_count >= 3 \/ r.trend = 1)}

\* the query for user 1 of g1 returned a signal from user 1 with trend +1 and
\* count 1 and a signal to user 1 with count 3 and trend 0, and left out a
\* signal from user 1 with count 2 and the guild g2 signal with count 4
C30_Witness ==
    /\ Queried
    /\ aggCall.guildId = "g1" /\ aggCall.userId = U1
    /\ Len(aggCall.returned) = 2
    /\ \E i \in DOMAIN aggCall.returned :
          /\ aggCall.returned[i].source_user_id = U1
          /\ aggCall.returned[i].concerning_count = 1
          /\ aggCall.returned[i].trend = 1
    /\ \E i \in DOMAIN aggCall.returned :
          /\ aggCall.returned[i].target_user_id = U1
          /\ aggCall.returned[i].concerning_count = 3
    /\ Cardinality(user_signals) = Cardinality(QueryPairs)

(***************************************************************************)
(* The order of the category matchers of checkTrigger, checked under       *)
(* SpecTrig.                                                               *)
(***************************************************************************)
\* the categories in the order of the claim
Priority ==
    <<"OBVIOUS", "LABELING", "ESCALATION", "GENERALIZING", "JUDGMENTAL",
      "INSULT", "COMPETENCE_DENIAL", "THREAT", "GENDER_BIAS", "AGE_BIAS",
      "CONDESCENDING", "DISMISSIVE", "PUBLIC_HUMILIATION", "AGGRESSIVE">>

\* the reason string a category supplies
ReasonOf(category) ==
    CASE category = "OBVIOUS" -> "Obvious negative keyword detected"
      [] category = "LABELING" ->
            "Labeling pattern detected (turning behavior into personality trait)"
      [] category = "ESCALATION" -> "Escalation language detected"
      [] category = "GENERALIZING" -> "Generalizing/implicit bias pattern detected"
      [] category = "JUDGMENTAL" -> "Judgmental/leading question detected"
      [] category = "INSULT" -> "Direct personal insult detected"
      [] category = "COMPETENCE_DENIAL" -> "Competence denial detected"
      [] category = "THREAT" -> "Threat/intimidation detected"
      [] category = "GENDER_BIAS" -> "Gender discrimination detected"
      [] category = "AGE_BIAS" -> "Age discrimination detected"
      [] category = "CONDESCENDING" -> "Condescending/patronizing language detected"
      [] category = "DISMISSIVE" -> "Dismissive/minimizing language detected"
      [] category = "PUBLIC_HUMILIATION" -> "Public humiliation pattern detected"
      [] category = "AGGRESSIVE" -> "Aggressive tone detected"

\* the content in trigIn matches the category
MatchesCategory(category) ==
    CASE category = "OBVIOUS" -> trigIn.content.obvious
      [] category = "AGGRESSIVE" ->
            \/ trigIn.content.bangs >= 3
            \/ (trigIn.content.length > 10 /\ trigIn.content.upper)
      [] OTHER -> category \in trigIn.content.patterns

\* a category fires when the content matches it; a targeted category only
\* when a counterpart is resolved
Fires(category) ==
    /\ MatchesCategory(category)
    /\ (category \in Untargeted \/ Counterpart # undefined)

FiringPositions == {i \in DOMAIN Priority : Fires(Priority[i])}

FirstFiring ==
    Priority[CHOOSE i \in FiringPositions : \A j \in FiringPositions : i <= j]

\* C31: when the message is no self-mention and some category fires, the
\* reason checkTrigger returns is that of the first category of the fixed
\* order that fires; a later category never supplies it.
C31_ReasonOfFirstFiringCategory ==
    (trigOut.done /\ Counterpart # trigIn.authorId /\ FiringPositions # {}) =>
        /\ trigOut.trigger.shouldAnalyze
        /\ trigOut.trigger.reason = ReasonOf(FirstFiring)

\* C31 witness: the content has an obvious negative keyword and a threat, and
\* there is no counterpart: the keyword category does not fire, the threat
\* supplies the reason.
C31_Witness ==
    /\ trigOut.done
    /\ Counterpart = undefined
    /\ trigIn.content.obvious
    /\ trigIn.content.patterns = {"THREAT"}
    /\ trigOut.trigger.reason = "Threat/intimidation detected"

\* two categories fire and the earlier one of the order supplies the reason
EarlierCategoryWins ==
    /\ trigOut.done
    /\ Counterpart = U2
    /\ trigIn.authorId = U1
    /\ trigIn.content.patterns = {"JUDGMENTAL", "INSULT"}
    /\ ~trigIn.content.obvious
    /\ trigOut.trigger.reason = "Judgmental/leading question detected"

(***************************************************************************)
(* SpecGap: the aggregator on a database that holds a history of the pair  *)
(* 1 -> 2 with calendar days that have no snapshot row: one verdict on     *)
(* each day of a schedule, replayed through recordAnalysis.  Afterwards    *)
(* verdicts are recorded and days pass, up to MaxGapSkip days in a row     *)
(* without a verdict.                                                      *)
(***************************************************************************)
MaxGapRows == 15      \* rows of the longest persisted history
MaxGapCalls == 1      \* recordAnalysis calls on top of the longest history
MaxGapSkip == 2       \* days in a row without a verdict

GapHistoryLengths == {MaxGapRows - 2, MaxGapRows}

\* the day of the i-th verdict of a history: every day, every other day, or
\* every day but for ten days off after the eighth verdict
GapSchedules == {"daily", "alternate", "break"}

DayOf(schedule, i) ==
    CASE schedule = "daily" -> i - 1
      [] schedule = "alternate" -> 2 * (i - 1)
      [] schedule = "break" -> (i - 1) + (IF i > 8 THEN 10 ELSE 0)

\* the verdicts of a history of n days, oldest first: up to two days of one
\* verdict, about a week of a second, and a third for the rest
GapVerdicts(n) ==
    {Rep(a, v1) \o Rep(b, v2) \o Rep(n - a - b, v3) :
        a \in 0..2, b \in 6..8, v1 \in Verdicts, v2 \in Verdicts, v3 \in Verdicts}

RECURSIVE ReplayGap(_, _, _)
ReplayGap(vs, schedule, n) ==
    IF n = 0
    THEN [signals |-> {}, snapshots |-> {},
          hist |-> [p \in Pairs |-> NoHistory], call |-> NoCall]
    ELSE AggStep(ReplayGap(vs, schedule, n - 1),
                 DayOf(schedule, n) * MinutesPerDay,
                 MainPair[1], MainPair[2], MainPair[3], vs[n])

InitGap ==
    /\ \E n \in GapHistoryLengths, schedule \in GapSchedules :
          \E vs \in GapVerdicts(n) :
              LET st == ReplayGap(vs, schedule, n)
              IN /\ user_signals = st.signals
                 /\ daily_snapshots = st.snapshots
                 /\ hist = st.hist
                 /\ aggCall = st.call
                 /\ now = (DayOf(schedule, n) + 1) * MinutesPerDay
    /\ NoMessages
    /\ NoHandlers
    /\ NoAlerts
    /\ NoTrend
    /\ NoTrigger

RecordGap ==
    \E v \in Verdicts :
        /\ hist[MainPair].calls < MaxGapRows + MaxGapCalls
        /\ RecordAnalysis(MainPair[1], MainPair[2], MainPair[3], v)

\* the rows of a pair
SnapshotsOf(p) ==
    {r \in daily_snapshots : /\ r.guild_id = p[1]
                             /\ r.source_user_id = p[2]
                             /\ r.target_user_id = p[3]}

\* a day passes, unless MaxGapSkip days went by since the pair's last row
PassDayGap ==
    /\ \E r \in SnapshotsOf(MainPair) : today(now) - r.date < MaxGapSkip
    /\ AdvanceClock(MinutesPerDay)

NextGap == RecordGap \/ PassDayGap

SpecGap == InitGap /\ [][NextGap]_vars

\* the rows of a pair that have lo..hi rows of the pair with a later date
RowsRanked(p, lo, hi) ==
    {r \in SnapshotsOf(p) :
        Cardinality({q \in SnapshotsOf(p) : q.date > r.date}) \in lo..hi}

RECURSIVE SumConcerning(_)
SumConcerning(rows) ==
    IF rows = {} THEN 0
    ELSE LET r == CHOOSE x \in rows : TRUE
         IN r.concerning_count + SumConcerning(rows \ {r})

\* worsening (+1), improving (-1) or stable (0): the mean count of the rows
\* ranked 0-6 against the mean count of the rows ranked 7-13, with a margin
\* of one half
TrendOfFourteen(p) ==
    LET r == SumConcerning(RowsRanked(p, 0, 6))
        q == SumConcerning(RowsRanked(p, 7, 13))
    IN IF Cardinality(SnapshotsOf(p)) < 14 THEN 0
       ELSE IF 2 * (r - q) > 7 THEN 1
       ELSE IF 2 * (r - q) < -7 THEN -1
       ELSE 0

DaysAndRowsDiffer ==
    /\ hist[MainPair].calls > MaxGapRows
    /\ StoredTrend(MainPair) = 1
    /\ LET last == CHOOSE r \in RowsRanked(MainPair, 0, 0) : TRUE
           week == {r \in SnapshotsOf(MainPair) : last.date - r.date < 7}
           before == {r \in SnapshotsOf(MainPair) :
                         last.date - r.date \in 7..13}
       IN 2 * (SumConcerning(week) - SumConcerning(before)) <= 7

MaxFreshTicks == 1    \* minutes that pass while the events arrive

FreshRows == MaxContextMessages - 1

\* n rows older than the bot's start, numbered after the events to come
FreshStore(n) ==
    {[StoredMessage(MaxBotMsgs + i, <<"g1", IF i % 2 = 0 THEN "c1" ELSE "c2">>,
                    BusyAuthor(i), BotStart - n - 1 + i,
                    IF BusyAuthor(i) = U12 THEN <<U12, U2>> ELSE <<>>)
         EXCEPT !.content = PlainText] :
        i \in 1..n}

InitFresh ==
    /\ now = BotStart
    /\ NoSignals
    /\ messages \in {FreshStore(n) : n \in {0, FreshRows - 1, FreshRows}}
    /\ chain = NoCall
    /\ NoHandlers
    /\ NoAlerts
    /\ NoTrend
    /\ NoTrigger

FreshEvents(id) ==
    {Event(id, FALSE, "g1", "c1", u, GeneralizingText, <<Other(u)>>, nullId) :
        u \in Users}
    \cup {Event(id, FALSE, "g1", "c1", U1, GeneralizingText, <<>>, nullId),
          [Event(id, FALSE, "g1", "c2", U1, GeneralizingText, <<U2>>, nullId)
              EXCEPT !.createdTimestamp = now - contextWindow - 1]}

ReceiveFresh == \E id \in 1..MaxBotMsgs : \E ev \in FreshEvents(id) : Receive(ev)
TickFresh == now < BotStart + MaxFreshTicks /\ AdvanceClock(1)

NextFresh == ReceiveFresh \/ TickFresh

SpecFresh == InitFresh /\ [][NextFresh]_vars

\* the stored row of the trigger message of the call in chain
TriggerRow == CHOOSE r \in messages : r.id = chain.triggerMessageId

\* the handler built the context of a message it had just stored, whose
\* timestamp lies inside the window
BuiltForFreshInWindow ==
    /\ chain.called
    /\ handlers[chain.triggerMessageId].pc # "idle"
    /\ TriggerRow.timestamp >= chain.at - contextWindow

\* the trigger message is triggerMessage and is among contextMessages
TriggerInContext ==
    /\ Returned
    /\ chain.result.triggerMessage.messageId = chain.triggerMessageId
    /\ \E i \in DOMAIN chain.result.contextMessages :
          chain.result.contextMessages[i].messageId = chain.triggerMessageId

Dropped ==
    LET kept == {chain.result.contextMessages[i].messageId :
                    i \in DOMAIN chain.result.contextMessages}
    IN {r \in Qualifying : r.id \notin kept}

\* C35: when more than maxMessages messages qualify, contextMessages holds
\* maxMessages of them, and none of those is newer than a qualifying message
\* that was left out: the cap drops the newest messages.
C35_CapDropsTheNewest ==
    (Returned /\ Cardinality(Qualifying) > MaxContextMessages) =>
        LET entries == chain.result.contextMessages
            qualifying == Qualifying
            dropped == Dropped
        IN /\ Len(entries) = MaxContextMessages
           /\ {entries[i].messageId : i \in DOMAIN entries}
                 \subseteq {r.id : r \in qualifying}
           /\ Cardinality({entries[i].messageId : i \in DOMAIN entries})
                 = MaxContextMessages
           /\ Cardinality(dropped) = Cardinality(qualifying) - MaxContextMessages
           /\ \A i \in DOMAIN entries : \A r \in dropped :
                 entries[i].timestamp <= r.timestamp

\* C35 witness: 102 messages qualify; the two left out are of the current
\* minute, the oldest message is kept.
C35_Witness ==
    /\ Returned
    /\ Cardinality(Qualifying) = MaxContextMessages + 2
    /\ Cardinality(Dropped) = 2
    /\ \A r \in Dropped : r.timestamp = chain.at
    /\ \E r \in Qualifying \ Dropped :
          \A q \in Qualifying : r.timestamp <= q.timestamp

(***************************************************************************)
(* The per-user query on a signal from a user to themself, checked under   *)
(* SpecQuery.                                                              *)
(***************************************************************************)
\* the pipeline has recorded a verdict on a signal from a user to themself
SelfSignalRecorded ==
    \E r \in user_signals :
        /\ r.source_user_id = r.target_user_id
        /\ \E id \in 1..MaxBotMsgs :
              /\ "result" \in DOMAIN handlers[id]
              /\ handlers[id].message.author = r.source_user_id
              /\ handlers[id].message.mentions = <<>>
              /\ handlers[id].trigger.targetUserId = r.source_user_id

\* C36: the per-user query returns each qualifying signal at most once, also
\* a signal whose source and target are the same user.
C36_EachSignalAtMostOnce ==
    Queried =>
        \A i, j \in DOMAIN aggCall.returned :
            i # j => aggCall.returned[i] # aggCall.returned[j]

\* the query returns each signal between two different users at most once
OtherSignalsAtMostOnce ==
    Queried =>
        \A i, j \in DOMAIN aggCall.returned :
            (i # j /\ aggCall.returned[i] = aggCall.returned[j]) =>
                aggCall.returned[i].source_user_id = aggCall.returned[i].target_user_id

(***************************************************************************)
(* SpecNotify: Notifier.notify called on its own, for messages of one      *)
(* author with a concerning or a non-concerning verdict.  Two calls may be *)
(* for the same message and may both be waiting for Discord; a cooldown    *)
(* period passes.  handlers[n] is the n-th call.                           *)
(***************************************************************************)
MaxNotifyMsgs == 2    \* message ids notify is called for
MaxNotifyTicks == 1   \* cooldown periods that pass

NotifyContexts ==
    {[message |-> Event(m, FALSE, "g1", "c1", U1, GeneralizingText, <<U2>>, nullId),
      analysisResult |-> v] :
        m \in 1..MaxNotifyMsgs, v \in Verdicts}

\* notify up to its first await, or to its return
CallNotify ==
    \E n \in 1..MaxBotMsgs, c \in NotifyContexts :
        /\ handlers[n].pc = "idle"
        /\ \A i \in 1..(n - 1) : handlers[i].pc # "idle"
        /\ handlers' = [handlers EXCEPT ![n] =
              LET checks == notifyChecks(alerts, now, c.message, c.analysisResult)
                  call == [pc |-> "notifying",
                           message |-> c.message,
                           trigger |-> Trigger("Generalizing/implicit bias pattern detected", U2),
                           context |-> NoChain, signal |-> NoSignal,
                           reply |-> TextOf(c.analysisResult),
                           result |-> c.analysisResult]
              IN IF checks = "send" THEN call
                 ELSE [pc |-> "done",
                       message |-> call.message, trigger |-> call.trigger,
                       context |-> call.context, signal |-> call.signal,
                       reply |-> call.reply, result |-> call.result,
                       notification |-> checks]]
        /\ UNCHANGED <<db, now, user_signals, daily_snapshots, aggCall, hist, messages,
                       interactions, chain, trendIn, trendOut, trigIn, trigOut,
                       alerts, cleanup>>

TickNotify ==
    /\ now < BotStart + MaxNotifyTicks * NotificationCooldownMinutes
    /\ AdvanceClock(NotificationCooldownMinutes)

NextNotify == CallNotify \/ NotifiedBot \/ TickNotify

SpecNotify == InitBot /\ [][NextNotify]_vars

\* the call n returns in this step
Returns(n) == handlers[n].pc # "done" /\ handlers'[n].pc = "done"

SkippedAndFailed ==
    /\ \E n \in 1..MaxBotMsgs :
          /\ handlers[n].pc = "done"
          /\ handlers[n].notification = "duplicate"
    /\ Cardinality(alerts) = 1


(***************************************************************************)
(* MimamoriBot.stop (C38).  stop() closes the database and sets the bot's  *)
(* db, contextTracker, signalAggregator, analyzer and notifier to null,    *)
(* then awaits client.destroy().  Handlers started by                      *)
(* `void this.handleMessage(message)` may be suspended on analyze or on    *)
(* notify at that moment, and message events may still be delivered until  *)
(* the client is destroyed.  The bot's guards read its own fields; the     *)
(* Notifier that is suspended inside notify holds its own reference to    *)
(* the database.                                                           *)
(***************************************************************************)

\* the statement alerts.insert of message id, run on the closed connection
AlertInsertOf(id) == [statement |-> "alerts.insert", message_id |-> id]

\* the error of a statement that is run on a closed connection, as
\* handleDMError reports it
NotOpen == "The database connection is not open"

\* stop(), up to its await of client.destroy()
Stop ==
    /\ db.open
    /\ db' = [db EXCEPT !.open = FALSE]
    /\ UNCHANGED <<now, user_signals, daily_snapshots, aggCall, hist, trendIn,
                   trendOut, trigIn, trigOut, messages, chain, interactions,
                   handlers, alerts, cleanup>>

\* handleMessage of an event: as Receive while the bot is started; after
\* stop(), storeMessage returns [] and checkAndAnalyze returns at its guard
ReceiveStop(ev) ==
    IF db.open THEN Receive(ev)
    ELSE /\ handlers[ev.id].pc = "idle"
         /\ \A i \in 1..(ev.id - 1) : handlers[i].pc # "idle"
         /\ handlers' = [handlers EXCEPT ![ev.id] =
               IF ev.bot \/ ev.guild = noGuild \/ ev.channel \in excludedChannels
               THEN Finished(ev, "ignored")
               ELSE Finished(ev, "stopped")]
         /\ UNCHANGED <<db, now, user_signals, daily_snapshots, aggCall, hist,
                        trendIn, trendOut, trigIn, trigOut, messages, chain,
                        interactions, alerts, cleanup>>

\* checkAndAnalyze from the analyzer's answer: as Analyzed while the bot is
\* started; after stop(), signalAggregator and notifier are null and both
\* steps are skipped
AnalyzedStop(id, reply) ==
    IF db.open THEN Analyzed(id, reply)
    ELSE /\ handlers[id].pc = "analyzing"
         /\ LET h == handlers[id]
                result == analyze(reply)
            IN handlers' = [handlers EXCEPT ![id] =
                  [pc |-> "done",
                   message |-> h.message, trigger |-> h.trigger,
                   context |-> h.context, signal |-> h.signal,
                   reply |-> reply, result |-> result]]
         /\ UNCHANGED <<db, now, user_signals, daily_snapshots, aggCall, hist,
                        trendIn, trendOut, trigIn, trigOut, messages, chain,
                        interactions, alerts, cleanup>>

\* Notifier.notify from the answer of fetchUser and sendDM: as Notified while
\* the bot is started; after stop(), a delivered DM is followed by
\* this.db.alerts.insert on the closed connection, whose error is caught and
\* returned by handleDMError
NotifiedStop(id, outcome) ==
    IF db.open THEN Notified(id, outcome)
    ELSE /\ handlers[id].pc = "notifying"
         /\ db' = IF outcome = "delivered"
                  THEN [db EXCEPT !.refused = @ \cup {AlertInsertOf(id)}]
                  ELSE db
         /\ handlers' = [handlers EXCEPT ![id] =
               LET h == handlers[id]
               IN [pc |-> "done",
                   message |-> h.message, trigger |-> h.trigger,
                   context |-> h.context, signal |-> h.signal,
                   reply |-> h.reply, result |-> h.result,
                   notification |-> IF outcome = "delivered" THEN NotOpen
                                    ELSE outcome]]
         /\ UNCHANGED <<now, user_signals, daily_snapshots, aggCall, hist,
                        trendIn, trendOut, trigIn, trigOut, messages, chain,
                        interactions, alerts, cleanup>>

ReceiveStopBot == \E id \in 1..MaxBotMsgs : \E ev \in Events(id) : ReceiveStop(ev)
AnalyzedStopBot ==
    \E id \in 1..MaxBotMsgs, v \in Verdicts : AnalyzedStop(id, TextOf(v))
NotifiedStopBot ==
    \E id \in 1..MaxBotMsgs, outcome \in DMOutcomes : NotifiedStop(id, outcome)

NextStop == ReceiveStopBot \/ AnalyzedStopBot \/ NotifiedStopBot \/ Stop

SpecStop == InitBot /\ [][NextStop]_vars

\* the five tables of the database
Stores == <<messages, interactions, user_signals, daily_snapshots, alerts>>

\* C38: once stop() has closed the database, no handler that was suspended
\* on the analysis or on the direct message runs a statement on the closed
\* database, and no step taken after stop() changes a store.
C38_NoAccessAfterStop ==
    /\ [](db.refused = {})
    /\ [][~db.open => UNCHANGED Stores]_vars

\* a handler that was suspended on the analysis when stop() ran finishes
\* without a statement on the database, and an event that arrives after
\* stop() changes no store: only a handler suspended in notify, whose DM is
\* then delivered, runs a statement, the insert of its alert
OnlyTheAlertOfADeliveredDM ==
    /\ [][~db.open => UNCHANGED Stores]_vars
    /\ [][db'.refused # db.refused =>
             \E id \in 1..MaxBotMsgs :
                /\ handlers[id].pc = "notifying"
                /\ handlers'[id].pc = "done"
                /\ handlers'[id].notification = NotOpen
                /\ db'.refused = db.refused \cup {AlertInsertOf(id)}]_vars

\* stop() ran while a handler awaited the analysis of a concerning message,
\* and the handler finished without recording or notifying anything
StoppedWhileAnalyzing ==
    \E id \in 1..MaxBotMsgs :
        /\ ~db.open
        /\ handlers[id].pc = "done"
        /\ "result" \in DOMAIN handlers[id]
        /\ handlers[id].result.isConcerning
        /\ "notification" \notin DOMAIN handlers[id]
        /\ user_signals = {}

\* stop() ran while a handler awaited the DM, the DM was delivered, and the
\* insert of the alert was run on the closed database: no alert is recorded
StoppedWhileNotifying ==
    \E id \in 1..MaxBotMsgs :
        /\ ~db.open
        /\ AlertInsertOf(id) \in db.refused
        /\ getByMessage(alerts, id) = {}

\* an event arrived after stop() and was not stored
ArrivedAfterStop ==
    \E id \in 1..MaxBotMsgs :
        /\ handlers[id].pc = "done"
        /\ handlers[id] = Finished(handlers[id].message, "stopped")
        /\ \A r \in messages : r.id # id

====
